---- MODULE Spec2Model ----
(***************************************************************************)
(* Return Clarity extension: the background service worker's per-tab       *)
(* state machine (extension/src/background.ts), the content script that    *)
(* drives it (extension/src/content.ts) and the per-domain TTL cache       *)
(* (extension/src/shared/cache.ts) over chrome.storage.local.              *)
(*                                                                         *)
(* Every `await` of the source is a point where another handler may run;   *)
(* an action of this module is one synchronous segment of a handler, from  *)
(* the completion of one awaited call to the start of the next.            *)
(***************************************************************************)
EXTENDS Integers, Sequences, FiniteSets, TLC

\* ------------------------------------------------------------------ bounds

\* The clock takes the values 0, TickMs, ..., MaxTicks * TickMs.
MaxTicks == 1

\* ------------------------------------------------------- program constants

DEFAULT_TTL_MS == 24 * 60 * 60 * 1000

STORAGE_PRUNE_THRESHOLD == 8 * 1024 * 1024

MIN_REFUND_POLICY_QUALITY == 6

EARLY_EXIT_QUALITY == 8

RENDER_FALLBACK_CANDIDATE_LIMIT == 3

MIN_BADGE_CONFIDENCE == 25

\* One step of the clock: just over the default TTL, so that one step
\* expires an entry stored with it.
TickMs == DEFAULT_TTL_MS + 1

\* Bytes one cache entry occupies in chrome.storage.local.
EntryBytes == 1024

\* The most rows of policy_snapshots the model follows.
MaxSnapshots == 2

\* The longest page the text normalizer is given, in characters.
MaxLen == 4

\* The cap of stripHtmlToText, MAX_TEXT_LENGTH, scaled to the pages of the
\* model.
MaxTextLength == 3

\* The most links of a footer the resolver is given.
MaxLinks == 2

\* The most duration matches of a text the return-window extractor reads.
MaxMatches == 2

\* The most sentences of a text the condition extractor reads, and the
\* most of its keywords one sentence holds.
MaxSentences == 2

MaxHits == 5

\* The content-script executions on the tracked tab: the page load and one
\* re-injection by RUN_DETECTION.  Each is also one caller of the cache.
Runs == {1, 2}

Domains == {"a.shop", "b.shop"}

\* ------------------------------------------------------------ value shapes

\* PolicySummary | null.  `by` is the run whose handler built the summary,
\* `src` the extractor that produced the fields, `text` the text it read.
\* A text is named by the URL it was read from, the way it was obtained and
\* whether compactPolicyTextForApi has been applied to it.
NoText == [of |-> "null", via |-> "null", compact |-> FALSE]

NoSummary == [by |-> 0, src |-> "null", url |-> "null", text |-> NoText]

\* CacheEntry | undefined.
NoEntry == [summary |-> NoSummary, cachedAt |-> -1, ttl |-> -1]

CacheEntry(summary, cachedAt, ttl) ==
    [summary |-> summary, cachedAt |-> cachedAt, ttl |-> ttl]

\* A variant of IsExpired that already expires an entry at
\* now = cachedAt + ttl; C9 tells it from IsExpired.
IsExpiredAtDeadline(entry, t) == t >= entry.cachedAt + entry.ttl

\* cache.ts:19 and cache.ts:32, `now > entry.cachedAt + entry.ttl`.
IsExpired(entry, t) == t > entry.cachedAt + entry.ttl

VARIABLES
    now,        \* Date.now()
    storage,    \* chrome.storage.local, the `cache:<domain>` keys
    otherBytes, \* bytes chrome.storage.local holds under other keys
    cop,        \* per caller, the cache call in flight
    lastSet,    \* history: per domain, the entry of the last completed set
    tab,        \* tabStates.get(tabId) of the tracked tab
    badge,      \* the action badge text of the tab
    cs,         \* per run, the content script's position and detection
    inbox,      \* per run, the messages sent and not yet handled, in order
    h,          \* per run, the handler of its POLICY_* message
    latest,     \* history: the run whose POLICY_* message was received last
    step,       \* history: what the last step did (see Quiet)
    res,        \* one candidate resolution of handlePolicyUrlsResolved
    loads,      \* history: the page loads of that resolution, in order
    hidden,     \* the hidden tabs that resolution created, in order
    calc,       \* one call of a pure function: its input and its result
    db,         \* the backend's policy_snapshots rows
    resp        \* the backend's answer to the last request

cacheVars == <<now, storage, otherBytes, cop, lastSet>>

orchVars == <<tab, badge, cs, inbox, h, latest>>

\* One resolution followed on its own (see ResolveSpec).
resolveVars == <<res, loads, hidden>>

\* The backend (see BackendSpec).
backendVars == <<db, resp>>

\* What the service worker's message handling and the cache leave alone.
extVars == <<res, loads, hidden, calc, db, resp>>

vars ==
    <<now, storage, otherBytes, cop, lastSet, tab, badge, cs, inbox, h, latest, step,
      res, loads, hidden, calc, db, resp>>

\* The record of a step: the run that took it, the statuses it wrote to
\* tabStates in order, the answer of the remote extractor it consumed, and
\* how the handler ended if the step ended one.
Quiet == [by |-> 0, writes |-> <<>>, answer |-> "none", ended |-> "none"]

\* A step of the cache or the clock: nothing of the orchestrator changes.
Aside == UNCHANGED orchVars /\ UNCHANGED extVars /\ step' = Quiet

\* A caller with no cache call in flight.
NoCall ==
    [op |-> "none", pc |-> "none", key |-> "null", summary |-> NoSummary, ttl |-> -1,
     entry |-> NoEntry, expiredKeys |-> {}, result |-> NoSummary]

\* chrome.storage.local.getBytesInUse(null).
BytesInUse == otherBytes + EntryBytes * Cardinality({d \in Domains : storage[d] # NoEntry})

\* ------------------------------------------------------------------ cache

\* getCachedSummary(domain) is called: chrome.storage.local.get(key) is issued.
StartGet(domain) ==
    [NoCall EXCEPT !.op = "get", !.pc = "get", !.key = domain]

\* setCachedSummary(domain, summary, ttlMs) is called: getBytesInUse is issued.
StartSet(domain, summary, ttlMs) ==
    [NoCall EXCEPT !.op = "set", !.pc = "setBytes", !.key = domain, !.summary = summary, !.ttl = ttlMs]

\* cache.ts:49-53: the entry is built, stamped with Date.now(), and
\* chrome.storage.local.set is issued.
BuildEntry(call) ==
    [call EXCEPT !.pc = "setWrite",
                 !.entry = CacheEntry(call.summary, now, call.ttl),
                 !.expiredKeys = {}]

\* getCachedSummary, from the answer of storage.get to the return or to
\* the issue of storage.remove.
GetAfterRead(call, entry) ==
    IF entry = NoEntry
    THEN [call EXCEPT !.pc = "ret", !.result = NoSummary]
    ELSE IF IsExpired(entry, now)
         THEN [call EXCEPT !.pc = "getRemove"]
         ELSE [call EXCEPT !.pc = "ret", !.result = entry.summary]

CacheGetRead(c) ==
    /\ cop[c].pc = "get"
    /\ cop' = [cop EXCEPT ![c] = GetAfterRead(cop[c], storage[cop[c].key])]
    /\ UNCHANGED <<now, storage, otherBytes, lastSet>>
    /\ Aside

\* cache.ts:33-34: storage.remove(key) completes, null is returned.
CacheGetRemove(c) ==
    /\ cop[c].pc = "getRemove"
    /\ storage' = [storage EXCEPT ![cop[c].key] = NoEntry]
    /\ cop' = [cop EXCEPT ![c].pc = "ret", ![c].result = NoSummary]
    /\ UNCHANGED <<now, otherBytes, lastSet>>
    /\ Aside

\* cache.ts:44-47: getBytesInUse answers.
SetAfterBytes(call, bytesUsed) ==
    IF bytesUsed > STORAGE_PRUNE_THRESHOLD
    THEN [call EXCEPT !.pc = "pruneGet"]
    ELSE BuildEntry(call)

CacheSetBytes(c) ==
    /\ cop[c].pc = "setBytes"
    /\ cop' = [cop EXCEPT ![c] = SetAfterBytes(cop[c], BytesInUse)]
    /\ UNCHANGED <<now, storage, otherBytes, lastSet>>
    /\ Aside

\* pruneExpiredEntries, cache.ts:14-21: storage.get(null) answers and the
\* expired keys are computed.
PruneAfterGetAll(call, all) ==
    LET expiredKeys == {d \in Domains : all[d] # NoEntry /\ IsExpired(all[d], now)}
    IN  IF expiredKeys # {}
        THEN [call EXCEPT !.pc = "pruneRemove", !.expiredKeys = expiredKeys]
        ELSE BuildEntry(call)

CachePruneGet(c) ==
    /\ cop[c].pc = "pruneGet"
    /\ cop' = [cop EXCEPT ![c] = PruneAfterGetAll(cop[c], storage)]
    /\ UNCHANGED <<now, storage, otherBytes, lastSet>>
    /\ Aside

\* cache.ts:22: storage.remove(expiredKeys) completes.
CachePruneRemove(c) ==
    /\ cop[c].pc = "pruneRemove"
    /\ storage' = [d \in Domains |-> IF d \in cop[c].expiredKeys THEN NoEntry ELSE storage[d]]
    /\ cop' = [cop EXCEPT ![c] = BuildEntry(cop[c])]
    /\ UNCHANGED <<now, otherBytes, lastSet>>
    /\ Aside

\* cache.ts:54: storage.set({[key]: entry}) completes.
CacheSetWrite(c) ==
    /\ cop[c].pc = "setWrite"
    /\ storage' = [storage EXCEPT ![cop[c].key] = cop[c].entry]
    /\ lastSet' = [lastSet EXCEPT ![cop[c].key] = cop[c].entry]
    /\ cop' = [cop EXCEPT ![c].pc = "ret"]
    /\ UNCHANGED <<now, otherBytes>>
    /\ Aside

\* A chrome.storage.local call rejects (quota, storage backend failure):
\* the cache function throws to its caller.
CacheReject(c) ==
    /\ cop[c].pc \in {"get", "setWrite"}
    /\ cop' = [cop EXCEPT ![c].pc = "threw"]
    /\ UNCHANGED <<now, storage, otherBytes, lastSet>>
    /\ Aside

Tick ==
    /\ now < MaxTicks * TickMs
    /\ now' = now + TickMs
    /\ UNCHANGED <<storage, otherBytes, cop, lastSet>>
    /\ Aside

\* ------------------------------------------------- orchestrator: values

\* The store's domain, window.location.hostname of the tracked tab.
StoreDomain == "a.shop"

RefundUrl == "/policies/refund-policy"

HelpCenterUrl == "/pages/help-center?hcUrl=returns"

ShippingUrl == "/policies/shipping-policy"

PageUrl == "/policies/refund-policy#current-page"

\* background.ts:299, u.toLowerCase().includes('/pages/help-center').
IncludesHelpCenter(u) == u = HelpCenterUrl

\* The values scorePolicyTextQuality gives the texts of the model: below
\* the acceptance threshold, on it, and on the early-exit threshold.
Qualities == {5, 6, 8}

\* detectShopify's confidence: no indicator present, or one.
Confidences == {0, 25}

NoDetection == [by |-> 0, isShopify |-> FALSE, confidence |-> -1, domain |-> "null"]

\* shopifyDetect.ts:36-41.
DetectionResult(r, confidence) ==
    [by |-> r, isShopify |-> confidence >= 25, confidence |-> confidence,
     domain |-> StoreDomain]

\* PolicyUrls, the fields handlePolicyUrlsResolved reads.  A missing
\* refundPolicyCandidates is hasCandidates = FALSE; null is "null".
NoUrls ==
    [refundPolicy |-> "null", hasCandidates |-> FALSE,
     refundPolicyCandidates |-> <<>>, shippingPolicy |-> "null"]

PolicyUrls(refundPolicy, hasCandidates, candidates, shippingPolicy) ==
    [refundPolicy |-> refundPolicy, hasCandidates |-> hasCandidates,
     refundPolicyCandidates |-> candidates, shippingPolicy |-> shippingPolicy]

\* The PolicyUrls values a POLICY_URLS_RESOLVED message of the model
\* carries, one per branch of handlePolicyUrlsResolved (background.ts:265,
\* 266, 283, 299).  resolvePolicyUrls (policyResolver.ts:30-45) sends the
\* last shape: the canonical routes first, then the footer's links; the
\* list is cut here to one route and one help-center link.
UrlChoices ==
    { PolicyUrls("null", TRUE, <<>>, "null"),
      PolicyUrls("null", TRUE, <<>>, ShippingUrl),
      PolicyUrls(RefundUrl, FALSE, <<>>, ShippingUrl),
      PolicyUrls(RefundUrl, TRUE, <<RefundUrl, HelpCenterUrl>>, ShippingUrl) }

\* background.ts:265.
Candidates(urls) ==
    IF urls.hasCandidates
    THEN urls.refundPolicyCandidates
    ELSE IF urls.refundPolicy # "null" THEN <<urls.refundPolicy>> ELSE <<>>

\* TabState.  errorMessage "undefined" is the absent optional field.
IdleState ==
    [detection |-> NoDetection, summary |-> NoSummary, status |-> "idle",
     fromCache |-> FALSE, errorMessage |-> "undefined"]

\* No entry for the tab in tabStates.
NoTab ==
    [detection |-> NoDetection, summary |-> NoSummary, status |-> "absent",
     fromCache |-> FALSE, errorMessage |-> "undefined"]

\* `tabStates.get(tabId) ?? { detection: null, summary: null, status: 'idle', fromCache: false }`.
Current == IF tab = NoTab THEN IdleState ELSE tab

\* The result of fetchBestPolicyCandidate / fetchBestRenderedPolicyCandidate,
\* or null.
NoBest == [url |-> "null", text |-> NoText, quality |-> -1]

NoHandler ==
    [kind |-> "none", pc |-> "idle", urls |-> NoUrls, list |-> <<>>, idx |-> 0,
     best |-> NoBest, text |-> NoText, url |-> "null", summary |-> NoSummary]

\* stripHtmlToText of the HTML fetched from `url`, or the text rendered
\* in a hidden tab, or the text of the page the content script sent.
Text(url, via) == [of |-> url, via |-> via, compact |-> FALSE]

\* compactPolicyTextForApi, as a term over its argument.
CompactPolicyTextForApi(text) == [text EXCEPT !.compact = TRUE]

\* extract.ts:58-94: the summary the local extractors build from `text`.
ExtractPolicyFromText(r, text, policyUrl) ==
    [by |-> r, src |-> "local", url |-> policyUrl, text |-> text]

\* What POST /extract can answer, as buildSummary tells the answers apart.
RemoteAnswers ==
    {"networkError", "abort", "non2xx", "malformedBody", "noUsefulField", "useful"}

\* A variant of BuildSummaryResult that returns the remote answer of
\* every 2xx response that parses, useful field or not; C5 tells it from
\* BuildSummaryResult.
BuildSummaryTrustsAnswer(r, compactText, policyUrl, answer) ==
    IF answer \in {"useful", "noUsefulField"}
    THEN [by |-> r, src |-> "remote", url |-> policyUrl, text |-> compactText]
    ELSE [by |-> r, src |-> "local", url |-> policyUrl, text |-> compactText]

\* buildSummary, background.ts:334-367, from the answer of the remote
\* extractor to the returned summary.  compactText is the text posted.
BuildSummaryResult(r, compactText, policyUrl, answer) ==
    IF answer = "useful"
    THEN [by |-> r, src |-> "remote", url |-> policyUrl, text |-> compactText]
    ELSE ExtractPolicyFromText(r, compactText, policyUrl)

\* ------------------------------------------------- orchestrator: writes

\* tabStates.set(tabId, state) by run r's handler; `statuses` are the
\* statuses the segment wrote, in order, the last one being state.status.
WriteTab(r, state, statuses, ended) ==
    /\ tab' = state
    /\ step' = [Quiet EXCEPT !.by = r, !.writes = statuses, !.ended = ended]
    /\ UNCHANGED extVars

NoWrite(r) == UNCHANGED tab /\ UNCHANGED extVars /\ step' = [Quiet EXCEPT !.by = r]

\* handleShopifyDetected, background.ts:205-206.
DetectedState(cur, detection) ==
    [cur EXCEPT !.detection = detection, !.status = "detecting"]

\* handleShopifyDetected, background.ts:208-213.
BadgeText(detection) ==
    IF detection.isShopify /\ detection.confidence >= MIN_BADGE_CONFIDENCE
    THEN "RC" ELSE ""

\* A variant of CachedState that does not flag the summary as cached;
\* C8 tells it from CachedState.
CachedStateUnflagged(cur, cached) ==
    [cur EXCEPT !.summary = cached, !.status = "done", !.fromCache = FALSE]

\* tryUseCachedSummary, background.ts:185.
CachedState(cur, cached) ==
    [cur EXCEPT !.summary = cached, !.status = "done", !.fromCache = TRUE]

\* background.ts:250, 278, 289, 307.
SummaryState(cur, summary) ==
    [cur EXCEPT !.summary = summary, !.status = "done", !.fromCache = FALSE]

\* background.ts:267 and 312.
NotFoundState(cur) ==
    [cur EXCEPT !.status = "done", !.fromCache = FALSE]

\* The .catch of the POLICY_PAGE_FOUND / POLICY_URLS_RESOLVED cases,
\* background.ts:82-83 and 150-151.
ErrorState(cur, message) ==
    [cur EXCEPT !.status = "error", !.errorMessage = message]

\* ------------------------------------------------- content script

\* content.ts:27-56, run() up to `await resolvePolicyUrls()`.  `onPolicy`
\* is isPolicyPage() with the page text scoring >= 6.  The runs of one tab
\* share a thread and resolvePolicyUrls awaits nothing, so a run has sent
\* its last message before the next injected script starts.
CsRun(r) ==
    /\ cs[r].pc = "init"
    /\ \A q \in Runs : q < r => cs[q].pc \in {"done", "threw"}
    /\ \E confidence \in Confidences, onPolicy \in BOOLEAN :
         LET detection == DetectionResult(r, confidence)
             detected == [type |-> "SHOPIFY_DETECTED", urls |-> NoUrls]
             found == [type |-> "POLICY_PAGE_FOUND", urls |-> NoUrls]
         IN  /\ cs' = [cs EXCEPT ![r] =
                         [pc |-> IF detection.isShopify /\ ~onPolicy THEN "resolving" ELSE "done",
                          detection |-> detection]]
             /\ inbox' = [inbox EXCEPT ![r] =
                         IF detection.isShopify /\ onPolicy
                         THEN <<detected, found>> ELSE <<detected>>]
    /\ UNCHANGED <<h, badge, latest>>
    /\ UNCHANGED cacheVars
    /\ NoWrite(r)

\* content.ts:55-56, resolvePolicyUrls() returns.
CsResolved(r) ==
    /\ cs[r].pc = "resolving"
    /\ \E urls \in UrlChoices :
         inbox' = [inbox EXCEPT ![r] = Append(@, [type |-> "POLICY_URLS_RESOLVED", urls |-> urls])]
    /\ cs' = [cs EXCEPT ![r].pc = "done"]
    /\ UNCHANGED <<h, badge, latest>>
    /\ UNCHANGED cacheVars
    /\ NoWrite(r)

\* content.ts:57-63, resolvePolicyUrls() throws: ERROR is sent.
CsThrow(r) ==
    /\ cs[r].pc = "resolving"
    /\ inbox' = [inbox EXCEPT ![r] = Append(@, [type |-> "ERROR", urls |-> NoUrls])]
    /\ cs' = [cs EXCEPT ![r].pc = "threw"]
    /\ UNCHANGED <<h, badge, latest>>
    /\ UNCHANGED cacheVars
    /\ NoWrite(r)

\* ------------------------------------------------- onMessage

\* chrome.runtime.onMessage (background.ts:48) receives the messages of a
\* tab in the order they were sent.
Deliverable(r) ==
    /\ inbox[r] # <<>>
    /\ \A q \in Runs : q < r => inbox[q] = <<>>

\* background.ts:53-69 with handleShopifyDetected.
OnShopifyDetected(r) ==
    /\ Deliverable(r)
    /\ Head(inbox[r]).type = "SHOPIFY_DETECTED"
    /\ inbox' = [inbox EXCEPT ![r] = Tail(@)]
    /\ WriteTab(r, DetectedState(Current, cs[r].detection), <<"detecting">>, "none")
    /\ badge' = BadgeText(cs[r].detection)
    /\ UNCHANGED <<cs, h, latest>>
    /\ UNCHANGED cacheVars

\* background.ts:76-87 and 144-155: the handler runs up to the await of
\* getCachedSummary (tryUseCachedSummary, background.ts:181).
OnPolicyMessage(r) ==
    /\ Deliverable(r)
    /\ Head(inbox[r]).type \in {"POLICY_PAGE_FOUND", "POLICY_URLS_RESOLVED"}
    /\ inbox' = [inbox EXCEPT ![r] = Tail(@)]
    /\ h' = [h EXCEPT ![r] =
               [NoHandler EXCEPT !.kind = Head(inbox[r]).type, !.pc = "cache",
                                 !.urls = Head(inbox[r]).urls]]
    /\ cop' = [cop EXCEPT ![r] = StartGet(cs[r].detection.domain)]
    /\ latest' = r
    /\ UNCHANGED <<cs, badge, now, storage, otherBytes, lastSet>>
    /\ NoWrite(r)

\* background.ts:164-167: a content-script error is logged.
OnError(r) ==
    /\ Deliverable(r)
    /\ Head(inbox[r]).type = "ERROR"
    /\ inbox' = [inbox EXCEPT ![r] = Tail(@)]
    /\ UNCHANGED <<cs, h, badge, latest>>
    /\ UNCHANGED cacheVars
    /\ NoWrite(r)

\* ------------------------------------------------- handlers

\* A handler that has returned or thrown.
Concluded == [NoHandler EXCEPT !.pc = "done"]

\* buildSummary, background.ts:322-327: the text is compacted and
\* POST /extract is issued.
BuildSummaryStart(hr, text, policyUrl) ==
    [hr EXCEPT !.pc = "remote", !.text = CompactPolicyTextForApi(text),
               !.url = policyUrl, !.list = <<>>, !.idx = 0, !.best = NoBest]

\* A fetched or rendered candidate, scored.
Candidate(url, via, quality) ==
    [url |-> url, text |-> Text(url, via), quality |-> quality]

\* A variant of BetterOf in which an equal score also replaces the best
\* candidate; C23 tells it from BetterOf.
BetterOfLatest(best, candidate) ==
    IF best = NoBest \/ candidate.quality >= best.quality THEN candidate ELSE best

\* background.ts:384-386 and 438.
BetterOf(best, candidate) ==
    IF best = NoBest \/ candidate.quality > best.quality THEN candidate ELSE best

\* What a fetch of a candidate, or its render in a hidden tab, can give:
\* a failure (null for a render), or a text of some quality.
LoadOutcomes ==
    {[ok |-> FALSE, quality |-> -1]} \cup {[ok |-> TRUE, quality |-> q] : q \in Qualities}

\* A variant of RenderList that hands every candidate to the render
\* fallback; C25 tells it from RenderList.
RenderListWhole(candidates) == candidates

\* background.ts:299-302, the candidates the render fallback walks.
RenderList(candidates) ==
    SubSeq(candidates, 1,
           IF Len(candidates) < RENDER_FALLBACK_CANDIDATE_LIMIT
           THEN Len(candidates) ELSE RENDER_FALLBACK_CANDIDATE_LIMIT)

\* background.ts:274, 303.
Usable(result) == result # NoBest /\ result.quality >= MIN_REFUND_POLICY_QUALITY

\* handlePolicyUrlsResolved, background.ts:274-312, from the return of
\* fetchBestPolicyCandidate over a non-empty list to the next await or
\* the return.
AfterWalk(r, result) ==
    LET candidates == Candidates(h[r].urls)
    IN  IF Usable(result)
        THEN /\ h' = [h EXCEPT ![r] = BuildSummaryStart(h[r], result.text, result.url)]
             /\ NoWrite(r)
        ELSE IF \E i \in 1..Len(candidates) : IncludesHelpCenter(candidates[i])
        THEN /\ h' = [h EXCEPT ![r].pc = "render", ![r].list = RenderList(candidates),
                               ![r].idx = 1, ![r].best = NoBest]
             /\ NoWrite(r)
        ELSE /\ h' = [h EXCEPT ![r] = Concluded]
             /\ WriteTab(r, NotFoundState(tab), <<"done">>, "notFound")

\* handlePolicyUrlsResolved, background.ts:303-312, from the return of
\* fetchBestRenderedPolicyCandidate.
AfterRender(r, rendered) ==
    IF Usable(rendered)
    THEN /\ h' = [h EXCEPT ![r] = BuildSummaryStart(h[r], rendered.text, rendered.url)]
         /\ NoWrite(r)
    ELSE /\ h' = [h EXCEPT ![r] = Concluded]
         /\ WriteTab(r, NotFoundState(tab), <<"done">>, "notFound")

\* handlePolicyUrlsResolved, background.ts:262-273, after a cache miss.
\* fetchBestPolicyCandidate of an empty list returns null without a fetch.
AfterMissUrls(r) ==
    LET current == Current
        candidates == Candidates(h[r].urls)
    IN  IF Len(candidates) = 0 /\ h[r].urls.shippingPolicy = "null"
        THEN /\ h' = [h EXCEPT ![r] = Concluded]
             /\ WriteTab(r, NotFoundState(current), <<"fetching", "done">>, "notFound")
        ELSE /\ WriteTab(r, [current EXCEPT !.status = "extracting"], <<"fetching", "extracting">>, "none")
             /\ IF Len(candidates) = 0
                THEN h' = [h EXCEPT ![r].pc = "ship"]
                ELSE h' = [h EXCEPT ![r].pc = "fetch", ![r].list = candidates,
                                    ![r].idx = 1, ![r].best = NoBest]

\* handlePolicyPageFound, background.ts:243-247, after a cache miss.
AfterMissPage(r) ==
    /\ WriteTab(r, [Current EXCEPT !.status = "extracting"], <<"extracting">>, "none")
    /\ h' = [h EXCEPT ![r] = BuildSummaryStart(h[r], Text(PageUrl, "page"), PageUrl)]

\* tryUseCachedSummary, background.ts:181-191, and the handler's next
\* segment: getCachedSummary has returned or thrown.
HCacheResult(r) ==
    /\ h[r].pc = "cache"
    /\ cop[r].pc \in {"ret", "threw"}
    /\ cop' = [cop EXCEPT ![r] = NoCall]
    /\ IF cop[r].pc = "ret" /\ cop[r].result # NoSummary
       THEN /\ WriteTab(r, CachedState(Current, cop[r].result), <<"done">>, "hit")
            /\ h' = [h EXCEPT ![r] = Concluded]
       ELSE IF h[r].kind = "POLICY_PAGE_FOUND"
            THEN AfterMissPage(r)
            ELSE AfterMissUrls(r)
    /\ UNCHANGED <<cs, inbox, badge, latest, now, storage, otherBytes, lastSet>>

\* fetchBestPolicyCandidate, background.ts:375-396: fetchPolicyHtml of the
\* candidate at idx answers, fails or is aborted after 8 s.
HFetchResult(r) ==
    /\ h[r].pc = "fetch"
    /\ \E outcome \in LoadOutcomes :
         LET candidate == Candidate(h[r].list[h[r].idx], "fetch", outcome.quality)
             best == IF outcome.ok THEN BetterOf(h[r].best, candidate) ELSE h[r].best
         IN  IF outcome.ok /\ outcome.quality >= EARLY_EXIT_QUALITY
             THEN AfterWalk(r, candidate)
             ELSE IF h[r].idx = Len(h[r].list)
             THEN AfterWalk(r, best)
             ELSE /\ h' = [h EXCEPT ![r].idx = @ + 1, ![r].best = best]
                  /\ NoWrite(r)
    /\ UNCHANGED <<cs, inbox, badge, latest>>
    /\ UNCHANGED cacheVars

\* fetchBestRenderedPolicyCandidate, background.ts:429-442:
\* fetchRenderedTextFromHiddenTab of the candidate at idx returns.
HRenderResult(r) ==
    /\ h[r].pc = "render"
    /\ \E outcome \in LoadOutcomes :
         LET candidate == Candidate(h[r].list[h[r].idx], "render", outcome.quality)
             best == IF outcome.ok THEN BetterOf(h[r].best, candidate) ELSE h[r].best
         IN  IF outcome.ok /\ outcome.quality >= EARLY_EXIT_QUALITY
             THEN AfterRender(r, candidate)
             ELSE IF h[r].idx = Len(h[r].list)
             THEN AfterRender(r, best)
             ELSE /\ h' = [h EXCEPT ![r].idx = @ + 1, ![r].best = best]
                  /\ NoWrite(r)
    /\ UNCHANGED <<cs, inbox, badge, latest>>
    /\ UNCHANGED cacheVars

\* background.ts:283-287: fetchPolicyHtml(urls.shippingPolicy) answers,
\* or throws; the throw leaves the handler and reaches the .catch of the
\* POLICY_URLS_RESOLVED case, background.ts:147-154.
HShipResult(r) ==
    /\ h[r].pc = "ship"
    /\ \E ok \in BOOLEAN :
         IF ok
         THEN /\ h' = [h EXCEPT ![r] = BuildSummaryStart(h[r],
                           Text(h[r].urls.shippingPolicy, "fetch"), h[r].urls.shippingPolicy)]
              /\ NoWrite(r)
         ELSE /\ h' = [h EXCEPT ![r] = Concluded]
              /\ WriteTab(r, ErrorState(Current, "Policy page returned 404"), <<"error">>, "threw")
    /\ UNCHANGED <<cs, inbox, badge, latest>>
    /\ UNCHANGED cacheVars

\* buildSummary, background.ts:327-367, from the answer of POST /extract
\* (or the 15 s abort) to its return, and the caller's cacheSummary up to
\* the getBytesInUse of setCachedSummary (background.ts:196, cache.ts:44).
HRemoteAnswer(r) ==
    /\ h[r].pc = "remote"
    /\ \E answer \in RemoteAnswers :
         LET summary == BuildSummaryResult(r, h[r].text, h[r].url, answer)
         IN  /\ h' = [h EXCEPT ![r].pc = "cacheSet", ![r].summary = summary]
             /\ cop' = [cop EXCEPT ![r] = StartSet(cs[r].detection.domain, summary, DEFAULT_TTL_MS)]
             /\ step' = [Quiet EXCEPT !.by = r, !.answer = answer]
             /\ UNCHANGED extVars
    /\ UNCHANGED <<tab, cs, inbox, badge, latest, now, storage, otherBytes, lastSet>>

\* cacheSummary, background.ts:194-200, has returned (a throw of
\* setCachedSummary is logged): the summary is written, background.ts:250,
\* 278, 289, 307.
HCacheSetDone(r) ==
    /\ h[r].pc = "cacheSet"
    /\ cop[r].pc \in {"ret", "threw"}
    /\ cop' = [cop EXCEPT ![r] = NoCall]
    /\ WriteTab(r, SummaryState(tab, h[r].summary), <<"done">>, "built")
    /\ h' = [h EXCEPT ![r] = Concluded]
    /\ UNCHANGED <<cs, inbox, badge, latest, now, storage, otherBytes, lastSet>>

\* ------------------------------------------------- one resolution

\* ALTERNATE_PATHS.refund, policyResolver.ts:16-18.
AltUrl == "/pages/returnpolicy"

ReturnUrl == "/pages/return-policy"

\* The candidate lists of a POLICY_URLS_RESOLVED message followed on its
\* own: empty, plain, with a help-center link inside the first
\* RENDER_FALLBACK_CANDIDATE_LIMIT candidates and with one after them.
ResolveLists ==
    { <<>>,
      <<RefundUrl>>,
      <<RefundUrl, AltUrl, ReturnUrl>>,
      <<RefundUrl, HelpCenterUrl>>,
      <<RefundUrl, AltUrl, HelpCenterUrl>>,
      <<RefundUrl, AltUrl, ReturnUrl, HelpCenterUrl>> }

\* A page load of the resolution: fetchPolicyHtml (via "fetch") or
\* fetchRenderedTextFromHiddenTab (via "render"), and what it gave.
Load(url, via, outcome) ==
    [url |-> url, via |-> via, ok |-> outcome.ok, quality |-> outcome.quality]

\* A tab of chrome.tabs.create({ url, active: false }), background.ts:448;
\* removal is the state of its chrome.tabs.remove, background.ts:491.
HiddenTab(url) == [url |-> url, open |-> TRUE, removal |-> "none"]

\* fetchBestPolicyCandidate has not returned, background.ts:273.
NotFetched == [url |-> "pending", text |-> NoText, quality |-> -1]

\* `fetched` is what fetchBestPolicyCandidate returned, background.ts:273;
\* `used` is the candidate whose text went to buildSummary.
NoResolve ==
    [pc |-> "none", urls |-> NoUrls, list |-> <<>>, idx |-> 0, best |-> NoBest,
     fetched |-> NotFetched, used |-> NoBest]

\* The resolution is not followed.
ResolveIdle == res = NoResolve /\ loads = <<>> /\ hidden = <<>>

\* NoCalc, NoResponse: no call of a pure function, no backend request.
NoCalc == [fn |-> "none"]

NoResponse == [status |-> 0]

CalcIdle == calc = NoCalc

BackendIdle == db = <<>> /\ resp = NoResponse

\* A walk that only ends at the end of the list; C11 tells it from
\* WalkEnds.
WalkEndsAtListEnd(list, idx, outcome) == idx = Len(list)

\* background.ts:375, 388-390, 396 and 429, 439, 442: the loop over the
\* candidates ends with the candidate at idx when it scored >= 8, or
\* when it was the last one.
WalkEnds(list, idx, outcome) ==
    (outcome.ok /\ outcome.quality >= EARLY_EXIT_QUALITY) \/ idx = Len(list)

\* What the loop returns when it ends at idx: the candidate that scored
\* >= 8, else the best one so far (background.ts:389, 396, 439, 442).
WalkResult(best, candidate, outcome) ==
    IF outcome.ok /\ outcome.quality >= EARLY_EXIT_QUALITY
    THEN candidate
    ELSE IF outcome.ok THEN BetterOf(best, candidate) ELSE best

ResolveFrame == UNCHANGED <<cacheVars, orchVars, step, calc, backendVars>>

\* handlePolicyUrlsResolved, background.ts:265-273, after the cache miss.
ResolveBegin ==
    /\ res.pc = "start"
    /\ LET candidates == Candidates(res.urls)
       IN  res' = IF Len(candidates) = 0 /\ res.urls.shippingPolicy = "null"
                  THEN [res EXCEPT !.pc = "notFound"]
                  ELSE IF Len(candidates) = 0
                  THEN [res EXCEPT !.pc = "ship", !.fetched = NoBest]
                  ELSE [res EXCEPT !.pc = "fetch", !.list = candidates, !.idx = 1]
    /\ UNCHANGED <<loads, hidden>>
    /\ ResolveFrame

\* A variant of ResolveAfterFetch that falls back to the shipping policy
\* whenever no candidate is usable; C24 tells it from ResolveAfterFetch.
ResolveAfterFetchThenShipping(result) ==
    IF Usable(result)
    THEN [res EXCEPT !.pc = "built", !.fetched = result, !.used = result]
    ELSE IF res.urls.shippingPolicy # "null"
    THEN [res EXCEPT !.pc = "ship", !.fetched = result]
    ELSE [res EXCEPT !.pc = "notFound", !.fetched = result]

\* background.ts:274-312 after fetchBestPolicyCandidate returned `result`
\* for a non-empty list.
ResolveAfterFetch(result) ==
    LET candidates == Candidates(res.urls)
    IN  IF Usable(result)
        THEN [res EXCEPT !.pc = "built", !.fetched = result, !.used = result]
        ELSE IF \E i \in 1..Len(candidates) : IncludesHelpCenter(candidates[i])
        THEN [res EXCEPT !.pc = "create", !.fetched = result,
                         !.list = RenderList(candidates), !.idx = 1, !.best = NoBest]
        ELSE [res EXCEPT !.pc = "notFound", !.fetched = result]

\* fetchBestPolicyCandidate, background.ts:375-396: the fetch of the
\* candidate at idx answers, fails or is aborted.
ResolveFetch ==
    /\ res.pc = "fetch"
    /\ \E outcome \in LoadOutcomes :
         LET url == res.list[res.idx]
             candidate == Candidate(url, "fetch", outcome.quality)
         IN  /\ loads' = Append(loads, Load(url, "fetch", outcome))
             /\ res' = IF WalkEnds(res.list, res.idx, outcome)
                       THEN ResolveAfterFetch(WalkResult(res.best, candidate, outcome))
                       ELSE [res EXCEPT !.idx = @ + 1,
                                        !.best = WalkResult(@, candidate, outcome)]
    /\ UNCHANGED hidden
    /\ ResolveFrame

\* background.ts:273-291 for an empty candidate list:
\* fetchBestPolicyCandidate returned null; the shipping fallback, whose
\* text is not scored.
ResolveShip ==
    /\ res.pc = "ship"
    /\ \E ok \in BOOLEAN :
         LET url == res.urls.shippingPolicy
             outcome == [ok |-> ok, quality |-> -1]
         IN  /\ loads' = Append(loads, Load(url, "fetch", outcome))
             /\ res' = IF ok
                       THEN [res EXCEPT !.pc = "built", !.used = Candidate(url, "fetch", -1)]
                       ELSE [res EXCEPT !.pc = "threw"]
    /\ UNCHANGED hidden
    /\ ResolveFrame

\* background.ts:303-312 after fetchBestRenderedPolicyCandidate returned.
ResolveAfterRender(rendered) ==
    IF Usable(rendered)
    THEN [res EXCEPT !.pc = "built", !.used = rendered]
    ELSE [res EXCEPT !.pc = "notFound"]

\* fetchBestRenderedPolicyCandidate, background.ts:429-442, after
\* fetchRenderedTextFromHiddenTab returned for the candidate at idx.
ResolveRendered(outcome) ==
    LET candidate == Candidate(res.list[res.idx], "render", outcome.quality)
    IN  IF WalkEnds(res.list, res.idx, outcome)
        THEN ResolveAfterRender(WalkResult(res.best, candidate, outcome))
        ELSE [res EXCEPT !.pc = "create", !.idx = @ + 1,
                         !.best = WalkResult(@, candidate, outcome)]

\* fetchRenderedTextFromHiddenTab, background.ts:448-450 and 486-492:
\* chrome.tabs.create resolves with a tab, or rejects or gives no id and
\* the function returns null with no tab to remove.
ResolveCreate ==
    /\ res.pc = "create"
    /\ \E created \in BOOLEAN :
         IF created
         THEN /\ hidden' = Append(hidden, HiddenTab(res.list[res.idx]))
              /\ res' = [res EXCEPT !.pc = "wait"]
         ELSE /\ hidden' = hidden
              /\ res' = ResolveRendered([ok |-> FALSE, quality |-> -1])
    /\ UNCHANGED loads
    /\ ResolveFrame

\* waitForTabComplete, background.ts:496-508: the tab is complete, or the
\* 15 s are over, or chrome.tabs.get throws because the tab is closed; the
\* function returns in each case.
ResolveWait ==
    /\ res.pc = "wait"
    /\ res' = [res EXCEPT !.pc = "script"]
    /\ UNCHANGED <<loads, hidden>>
    /\ ResolveFrame

\* background.ts:454-492: executeScript gives a text, something that is
\* no string, or throws (it throws when the tab is closed); `finally`
\* issues chrome.tabs.remove and does not await it.
ResolveScript ==
    /\ res.pc = "script"
    /\ \E outcome \in LoadOutcomes :
         /\ outcome.ok => hidden[Len(hidden)].open
         /\ loads' = Append(loads, Load(res.list[res.idx], "render", outcome))
         /\ hidden' = [hidden EXCEPT ![Len(hidden)].removal = "issued"]
         /\ res' = ResolveRendered(outcome)
    /\ ResolveFrame

\* The user, or the browser, closes a hidden tab.
TabClosedExternally(i) ==
    /\ i \in 1..Len(hidden)
    /\ hidden[i].open
    /\ hidden' = [hidden EXCEPT ![i].open = FALSE]
    /\ UNCHANGED <<res, loads>>
    /\ ResolveFrame

\* chrome.tabs.remove(tabId) of background.ts:491 closes the tab.
TabRemoveDone(i) ==
    /\ i \in 1..Len(hidden)
    /\ hidden[i].removal = "issued"
    /\ hidden' = [hidden EXCEPT ![i].removal = "done", ![i].open = FALSE]
    /\ UNCHANGED <<res, loads>>
    /\ ResolveFrame

\* chrome.tabs.remove(tabId) rejects (the tab is already closed, or the
\* browser refuses to edit tabs at that moment); `.catch(() => {})`
\* drops the rejection, background.ts:491.
TabRemoveRejected(i) ==
    /\ i \in 1..Len(hidden)
    /\ hidden[i].removal = "issued"
    /\ hidden' = [hidden EXCEPT ![i].removal = "rejected"]
    /\ UNCHANGED <<res, loads>>
    /\ ResolveFrame

\* ------------------------------------------------- summary shape

\* PolicyExtractor::FIELDS, policy_extractor.rb:4; the keys of
\* PolicyFields and PolicyConfidence, types.ts:25-39.
FIELDS == {"returnWindow", "conditionRequirements", "fees", "returnShipping", "exclusions"}

\* ConfidenceLevel, extract.ts:8; valid_levels, policy_extractor.rb:112.
Levels == {"low", "medium", "high"}

CalcFrame == UNCHANGED <<cacheVars, orchVars, step, resolveVars, backendVars>>

\* What the language model can put under one key of "fields" and under
\* the same key of "confidence": a text, null or a blank string, with a
\* level that may be none of the three.
LlmPairs ==
    { <<"text", "high">>, <<"text", "medium">>, <<"null", "low">>,
      <<"null", "high">>, <<"", "certain">> }

\* The keys the language model can answer with: the five, one missing,
\* one more.
LlmKeySets == {FIELDS, FIELDS \ {"fees"}, FIELDS \cup {"notes"}}

\* ExtractResult, extract.ts:10-13, as the return statements of the five
\* extractors give it (extract.ts:242-263, 302-307, 331-344, 374-392,
\* 435-440): a text at any level, or null at low.
ExtractResults ==
    {[value |-> "text", confidence |-> c] : c \in Levels}
      \cup {[value |-> "null", confidence |-> "low"]}

\* A variant of SanitizeFields that hands the model's keys on as they
\* are; C13 tells it from SanitizeFields.
SanitizeFieldsAsGiven(fields) == fields

\* sanitize_fields, policy_extractor.rb:104-109: a non-blank string stays
\* (cut to 120 characters), everything else is nil.
SanitizeFields(fields) ==
    [k \in FIELDS |-> IF k \in DOMAIN fields /\ fields[k] \notin {"null", ""}
                      THEN fields[k] ELSE "null"]

\* sanitize_confidence, policy_extractor.rb:111-117.
SanitizeConfidence(confidence) ==
    [k \in FIELDS |-> IF k \in DOMAIN confidence /\ confidence[k] \in Levels
                      THEN confidence[k] ELSE "low"]

\* empty_result, policy_extractor.rb:119-123.
EmptyResult ==
    [fields |-> [k \in FIELDS |-> "null"], confidence |-> [k \in FIELDS |-> "low"]]

\* parse_response, policy_extractor.rb:90-102.
ParseResponse(llm) ==
    [fields |-> SanitizeFields(llm.fields), confidence |-> SanitizeConfidence(llm.confidence)]

\* hasUsefulField, background.ts:347-349.
HasUsefulField(fields) ==
    \E k \in DOMAIN fields : fields[k] \notin {"null", ""}

\* extractPolicyFromText, extract.ts:72-91, with calculateConfidence,
\* extract.ts:445-459: `results` maps each field to its extractor's result.
LocalSummary(results) ==
    [src |-> "local",
     fields |-> [k \in FIELDS |-> results[k].value],
     confidence |-> [k \in FIELDS |-> results[k].confidence]]

\* buildSummary, background.ts:354-361: the response's fields and
\* confidence are taken as they are.
RemoteSummary(data) ==
    [src |-> "remote", fields |-> data.fields, confidence |-> data.confidence]

NoShape == [src |-> "null", fields |-> <<>>, confidence |-> <<>>]

\* The answer slot of a call in which the language model gave none.
NoAnswer ==
    [fields |-> [k \in FIELDS |-> "null"], confidence |-> [k \in FIELDS |-> "low"]]

\* PolicyExtractor#call, policy_extractor.rb:51-74, and the 200 of
\* ExtractController#create, extract_controller.rb:20-27: the model's
\* answer is sanitized, or the call to the model fails and the empty
\* result is sent.
ExtractorAnswers ==
    /\ calc.fn = "buildSummary"
    /\ calc.pc = "post"
    /\ calc.remote \in {"answers", "modelFails"}
    /\ calc' = [calc EXCEPT !.pc = "answered",
                   !.data = IF calc.remote = "modelFails"
                            THEN EmptyResult ELSE ParseResponse(calc.llm)]
    /\ CalcFrame

\* buildSummary, background.ts:342-361: the 200 is read; without a useful
\* field the local extractors build the summary.
BuildSummaryReturn ==
    /\ calc.fn = "buildSummary"
    /\ calc.pc = "answered"
    /\ IF HasUsefulField(calc.data.fields)
       THEN calc' = [calc EXCEPT !.pc = "stored", !.summary = RemoteSummary(calc.data)]
       ELSE \E results \in [FIELDS -> ExtractResults] :
              calc' = [calc EXCEPT !.pc = "stored", !.summary = LocalSummary(results)]
    /\ CalcFrame

\* buildSummary, background.ts:335-340 and 362-364: no 2xx answer; the
\* local extractors build the summary.
BuildSummaryFallsBack ==
    /\ calc.fn = "buildSummary"
    /\ calc.pc = "post"
    /\ calc.remote = "unreachable"
    /\ \E results \in [FIELDS -> ExtractResults] :
         calc' = [calc EXCEPT !.pc = "stored", !.summary = LocalSummary(results)]
    /\ CalcFrame

\* ------------------------------------------------- saving a snapshot

\* A URL as isHttpUrl reads it, popup.ts:252-254: its scheme and the rest.
\* tab?.url is undefined when the popup may not see the tab's URL.
UndefinedUrl == [scheme |-> "undefined", rest |-> ""]

TabUrls ==
    { UndefinedUrl,
      [scheme |-> "chrome", rest |-> "//extensions"],
      [scheme |-> "http", rest |-> "//a.shop/products/shirt"],
      [scheme |-> "HTTPS", rest |-> "//a.shop/cart"] }

\* isHttpUrl, popup.ts:252-254: /^https?:\/\//i.
IsHttpUrl(url) == url.scheme \in {"http", "https", "HTTP", "HTTPS"}

\* The policy URLs a stored summary can carry: a canonical route, the
\* shipping fallback, a help-center link and a footer link whose text
\* mentions returns (policyResolver.ts:113-124), and the current page on
\* a path isPolicyPage accepts (policyResolver.ts:193-202).
SavedPolicyUrls ==
    {RefundUrl, ShippingUrl, HelpCenterUrl, "/pages/faq",
     "/policies/privacy-policy", "/policies/contact-information"}

\* The keywords of getPolicyType that url.toLowerCase() includes,
\* policyResolver.ts:208 and 214-218.
UrlWords(url) ==
    CASE url \in {RefundUrl, PageUrl} -> {"refund"}
      [] url \in {AltUrl, ReturnUrl, HelpCenterUrl} -> {"return"}
      [] url = ShippingUrl -> {"shipping"}
      [] url = "/policies/privacy-policy" -> {"privacy"}
      [] OTHER -> {}

\* getHelpCenterArticlePath, policyResolver.ts:142-150: the decoded,
\* lower-cased hcUrl parameter, or null.
GetHelpCenterArticlePath(url) == IF url = HelpCenterUrl THEN "returns" ELSE "null"

\* getPolicyType, policyResolver.ts:207-220.
GetPolicyType(url) ==
    IF GetHelpCenterArticlePath(url) = "returns" THEN "refund"
    ELSE IF UrlWords(url) \cap {"refund", "return"} # {} THEN "refund"
    ELSE IF UrlWords(url) \cap {"shipping", "delivery"} # {} THEN "shipping"
    ELSE IF "privacy" \in UrlWords(url) THEN "privacy"
    ELSE IF "terms" \in UrlWords(url) THEN "terms"
    ELSE IF "subscription" \in UrlWords(url) THEN "subscription"
    ELSE "unknown"

\* chrome.storage.sync's authToken: not a string, blank, or a token.
RawTokens == {"undefined", "", "  ", "tok-1"}

\* saveSnapshot, background.ts:518: the trimmed token, '' when it is not
\* a string.
TrimToken(rawToken) == IF rawToken \in {"undefined", "", "  "} THEN "" ELSE rawToken

\* EXTENSION_VERSION, background.ts:42.
ExtensionVersion == "1.0.0"

\* PolicySummary as the popup holds and sends it, types.ts:41-49.
SavedSummary(policyUrl, pageUrl) ==
    [storeDomain |-> StoreDomain, policyUrl |-> policyUrl, pageUrl |-> pageUrl,
     fields |-> "fields", confidence |-> "confidence", rawTextSnippet |-> "snippet"]

\* The payload of saveSnapshot, background.ts:524-532.
SnapshotPayload(summary) ==
    [store_domain |-> summary.storeDomain,
     policy_url |-> summary.policyUrl,
     policy_type |-> GetPolicyType(summary.policyUrl),
     summary |-> [fields |-> summary.fields, confidence |-> summary.confidence],
     raw_text_snippet |-> summary.rawTextSnippet,
     user_agent |-> "Chrome Extension",
     extension_version |-> ExtensionVersion]

NoPayload == [store_domain |-> "null"]

\* The policy types the backend accepts, policy_snapshot.rb:7.
PolicyTypes == {"refund", "shipping", "privacy", "terms", "subscription"}

\* handleSaveSnapshot, popup.ts:284-302: the active tab's URL, when it is
\* an http(s) URL, becomes the summary's pageUrl; the summary is sent.
HandleSaveSnapshot ==
    /\ calc.fn = "saveSnapshot"
    /\ calc.pc = "click"
    /\ calc' = [calc EXCEPT !.pc = "sent",
                   !.summary = IF ~calc.lastError /\ IsHttpUrl(calc.tab)
                               THEN SavedSummary(calc.summary.policyUrl, calc.tab)
                               ELSE calc.summary]
    /\ CalcFrame

\* saveSnapshot, background.ts:516-552, up to the POST: without a token
\* it throws, else the payload is posted.
SaveSnapshot ==
    /\ calc.fn = "saveSnapshot"
    /\ calc.pc = "sent"
    /\ IF TrimToken(calc.rawToken) = ""
       THEN calc' = [calc EXCEPT !.pc = "refused"]
       ELSE calc' = [calc EXCEPT !.pc = "posted", !.payload = SnapshotPayload(calc.summary)]
    /\ CalcFrame

\* ------------------------------------------------- backend snapshots

\* Two requests can be inside SnapshotsController#create at once.
Slots == {1, 2}

\* The users table, schema.rb:56-63: a user and its auth_token.
Users == {"u1", "u2"}

AuthTokenOf(user) == IF user = "u1" THEN "tok-1" ELSE "tok-2"

\* The Authorization header of a request: absent, or "Bearer " and a
\* user's token or a token of no user.
Authorizations ==
    { [present |-> FALSE, token |-> ""],
      [present |-> TRUE, token |-> "tok-1"],
      [present |-> TRUE, token |-> "tok-2"],
      [present |-> TRUE, token |-> "stale"] }

\* extract_token, authenticable.rb:24-26: the header without its leading
\* "Bearer ", nil without a header.
ExtractToken(header) == IF header.present THEN header.token ELSE "nil"

\* authenticate_user!, authenticable.rb:10-14: User.find_by(auth_token:).
CurrentUser(header) ==
    LET token == ExtractToken(header)
    IN  IF token # "nil" /\ \E u \in Users : AuthTokenOf(u) = token
        THEN CHOOSE u \in Users : AuthTokenOf(u) = token
        ELSE "nil"

\* The store_domain and summary parameters of a POST; "none" is a request
\* without a summary.
StoreDomains == {"a.shop", "b.shop"}

SummaryParams == {"A", "B", "none"}

\* generate_checksum, policy_snapshot.rb:11 and 18-20: the digest of the
\* summary's JSON, left blank without a summary.  The digest is taken as
\* injective.
Checksum(summary) ==
    CASE summary = "A" -> "sha256(A)"
      [] summary = "B" -> "sha256(B)"
      [] OTHER -> "blank"

\* A row of policy_snapshots, schema.rb:28-45; its id is its position.
SnapshotRow(store, user, checksum, at) ==
    [store |-> store, user |-> user, checksum |-> checksum, extracted_at |-> at]

NoCreate == [pc |-> "idle", row |-> SnapshotRow("", "nil", "blank", 0)]

\* The ids of the rows the unique index
\* index_policy_snapshots_on_store_id_and_checksum, schema.rb:41, and the
\* uniqueness validation, policy_snapshot.rb:9, compare a new row with.
SameContent(rows, store, checksum) ==
    {i \in 1..Len(rows) : rows[i].store = store /\ rows[i].checksum = checksum}

\* Time.current, snapshots_controller.rb:111: later than every reading
\* a row or a request in flight holds.
RECURSIVE MaxOf(_)
MaxOf(S) ==
    IF S = {} THEN 0
    ELSE LET x == CHOOSE y \in S : TRUE
             rest == MaxOf(S \ {x})
         IN  IF x > rest THEN x ELSE rest

TimeCurrent ==
    1 + MaxOf({db[i].extracted_at : i \in 1..Len(db)}
                \cup {resp.flight[s].row.extracted_at : s \in Slots})

NoPagination == [current_page |-> 0, total_pages |-> 0, total_count |-> 0, per_page |-> 0]

\* What a request was answered with: the status and error code, and of
\* the body the snapshot id, existing_snapshot_id, the listed ids and the
\* pagination; `user`, `store`, `checksum` and `perPage` keep what the
\* request carried.
Reply(kind, status, code) ==
    [kind |-> kind, status |-> status, code |-> code, user |-> "nil", id |-> 0,
     existing |-> 0, items |-> <<>>, pagination |-> NoPagination,
     store |-> "", checksum |-> "blank", perPage |-> "absent"]

NoReply == Reply("none", 0, "")

\* authenticate_user!, authenticable.rb:16-21.
Unauthorized(kind) == Reply(kind, 401, "UNAUTHORIZED")

\* Query parameters as the request carries them, and String#to_i.
PageParams == {"absent", "0", "2"}

PerPageParams == {"absent", "0", "1", "500"}

ToI(param) ==
    CASE param = "0" -> 0
      [] param = "1" -> 1
      [] param = "2" -> 2
      [] param = "500" -> 500
      [] OTHER -> 0

Max(a, b) == IF a > b THEN a ELSE b

Min(a, b) == IF a < b THEN a ELSE b

\* snapshots_controller.rb:70.
PageOf(param) == Max(IF param = "absent" THEN 1 ELSE ToI(param), 1)

\* A variant of PerPageOf without the upper clamp; C17 tells it from
\* PerPageOf.
PerPageUncapped(param) == Max(IF param = "absent" THEN 10 ELSE ToI(param), 1)

\* snapshots_controller.rb:71.
PerPageOf(param) == Min(Max(IF param = "absent" THEN 10 ELSE ToI(param), 1), 100)

\* scope.order(extracted_at: :desc, id: :desc), snapshots_controller.rb:79,
\* over the ids in S.
RECURSIVE Ordered(_)
Ordered(S) ==
    IF S = {} THEN <<>>
    ELSE LET first == CHOOSE i \in S : \A j \in S :
                        \/ db[i].extracted_at > db[j].extracted_at
                        \/ db[i].extracted_at = db[j].extracted_at /\ i >= j
         IN  <<first>> \o Ordered(S \ {first})

\* scope.offset(offset).limit(per_page), snapshots_controller.rb:82.
OffsetLimit(ids, offset, limit) ==
    SubSeq(ids, offset + 1, Min(offset + limit, Len(ids)))

\* (total_count.to_f / per_page).ceil, snapshots_controller.rb:88.
TotalPages(totalCount, perPage) == (totalCount + perPage - 1) \div perPage

BackendFrame == UNCHANGED <<cacheVars, orchVars, step, resolveVars, calc>>

\* SnapshotsController#index, snapshots_controller.rb:69-93, behind
\* authenticate_user!.
Index(header, pageParam, perPageParam, storeFilter) ==
    /\ LET user == CurrentUser(header)
           page == PageOf(pageParam)
           perPage == PerPageOf(perPageParam)
           scope == {i \in 1..Len(db) :
                       /\ db[i].user = user
                       /\ storeFilter # "absent" => db[i].store = storeFilter}
           totalCount == Cardinality(scope)
       IN  resp' = [resp EXCEPT !.last =
             IF user = "nil" THEN Unauthorized("index")
             ELSE [Reply("index", 200, "") EXCEPT
                     !.user = user, !.perPage = perPageParam,
                     !.items = OffsetLimit(Ordered(scope), (page - 1) * perPage, perPage),
                     !.pagination = [current_page |-> page,
                                     total_pages |-> TotalPages(totalCount, perPage),
                                     total_count |-> totalCount,
                                     per_page |-> perPage]]]
    /\ UNCHANGED db
    /\ BackendFrame

\* SnapshotsController#create, snapshots_controller.rb:95-133, up to the
\* INSERT of snapshot.save: the store is found or created, the snapshot is
\* built and validated (policy_snapshot.rb:6-11).
CreateValidate(slot, header, store, summary) ==
    /\ resp.flight[slot] = NoCreate
    /\ Len(db) + Cardinality({s \in Slots : resp.flight[s] # NoCreate}) < MaxSnapshots
    /\ LET user == CurrentUser(header)
           checksum == Checksum(summary)
           row == SnapshotRow(store, user, checksum, TimeCurrent)
           valid == checksum # "blank" /\ SameContent(db, store, checksum) = {}
       IN  IF user = "nil"
           THEN resp' = [resp EXCEPT !.last = Unauthorized("create")]
           ELSE IF ~valid
           THEN resp' = [resp EXCEPT !.last =
                  [Reply("create", 422, "VALIDATION_ERROR") EXCEPT
                     !.user = user, !.store = store, !.checksum = checksum]]
           ELSE resp' = [resp EXCEPT !.flight[slot] = [pc |-> "insert", row |-> row]]
    /\ UNCHANGED db
    /\ BackendFrame

\* The INSERT of snapshot.save and the answer, snapshots_controller.rb:
\* 114-124 and 134-142: the unique index refuses a second row of the
\* store with the checksum and the rescue answers 409.
CreateInsert(slot) ==
    /\ resp.flight[slot] # NoCreate
    /\ LET row == resp.flight[slot].row
           same == SameContent(db, row.store, row.checksum)
           answer == [Reply("create", 201, "") EXCEPT
                        !.user = row.user, !.store = row.store, !.checksum = row.checksum]
       IN  IF same = {}
           THEN /\ db' = Append(db, row)
                /\ resp' = [resp EXCEPT !.flight[slot] = NoCreate,
                              !.last = [answer EXCEPT !.id = Len(db) + 1]]
           ELSE /\ db' = db
                /\ resp' = [resp EXCEPT !.flight[slot] = NoCreate,
                              !.last = [answer EXCEPT !.status = 409,
                                          !.code = "DUPLICATE_SNAPSHOT",
                                          !.existing = CHOOSE i \in same : TRUE]]
    /\ BackendFrame

\* ------------------------------------------------- text normalizer

\* The characters of a page in the model: a letter, a blank, a newline,
\* the angle brackets, and three of the character entities, each taken as
\* one unit.
Symbols == {"a", " ", "\n", "<", ">", "&lt;", "&gt;", "&amp;"}

Whitespace == {" ", "\n"}

RECURSIVE TextsOfLength(_)
TextsOfLength(n) ==
    IF n = 0 THEN {<<>>}
    ELSE {<<c>> \o t : c \in Symbols, t \in TextsOfLength(n - 1)}

Texts == UNION {TextsOfLength(n) : n \in 0..MaxLen}

\* The tail of `text` behind its first ">", or <<"none">> when it has none.
RECURSIVE AfterTagEnd(_)
AfterTagEnd(text) ==
    IF text = <<>> THEN <<"none">>
    ELSE IF Head(text) = ">" THEN Tail(text)
    ELSE AfterTagEnd(Tail(text))

\* "strip remaining tags": every "<" up to the next ">" gives way to a
\* blank; a "<" that is never closed stays.
RECURSIVE StripTags(_)
StripTags(text) ==
    IF text = <<>> THEN <<>>
    ELSE IF Head(text) = "<" /\ AfterTagEnd(Tail(text)) # <<"none">>
         THEN <<" ">> \o StripTags(AfterTagEnd(Tail(text)))
         ELSE <<Head(text)>> \o StripTags(Tail(text))

\* "decode the five common named character entities".
DecodeEntity(c) ==
    CASE c = "&lt;" -> "<"
      [] c = "&gt;" -> ">"
      [] c = "&amp;" -> "&"
      [] OTHER -> c

DecodeEntities(text) == [i \in 1..Len(text) |-> DecodeEntity(text[i])]

\* stripTagsToText, called at extract.ts:52: tags go, then entities are
\* decoded.
StripTagsToText(html) == DecodeEntities(StripTags(html))

\* normalizeText, called at extract.ts:53 and 63: "collapse runs of
\* whitespace (preserving single newlines)".
RECURSIVE NormalizeText(_)
NormalizeText(text) ==
    IF text = <<>> THEN <<>>
    ELSE IF Len(text) >= 2 /\ text[1] \in Whitespace /\ text[2] \in Whitespace
         THEN NormalizeText(<<IF "\n" \in {text[1], text[2]} THEN "\n" ELSE " ">>
                              \o SubSeq(text, 3, Len(text)))
         ELSE <<Head(text)>> \o NormalizeText(Tail(text))

\* String.prototype.slice(0, n), extract.ts:53.
Slice(text, n) == SubSeq(text, 1, IF Len(text) < n THEN Len(text) ELSE n)

\* stripHtmlToText, extract.ts:50-54, where no DOMParser exists (the
\* service worker, extract.ts:31) and the whole markup is stripped.
StripHtmlToText(html) == Slice(NormalizeText(StripTagsToText(html)), MaxTextLength)

NoTextYet == <<"none">>

\* stripHtmlToText applied to a page.
StripOnce ==
    /\ calc.fn = "stripHtmlToText"
    /\ calc.pc = "input"
    /\ calc' = [calc EXCEPT !.pc = "once", !.once = StripHtmlToText(calc.html)]
    /\ CalcFrame

\* stripHtmlToText applied to its own output.
StripAgain ==
    /\ calc.fn = "stripHtmlToText"
    /\ calc.pc = "once"
    /\ calc' = [calc EXCEPT !.pc = "twice", !.again = StripHtmlToText(calc.once)]
    /\ CalcFrame

\* extractPolicyFromText, extract.ts:63: the text is normalized again.
ExtractNormalizes ==
    /\ calc.fn = "stripHtmlToText"
    /\ calc.pc = "once"
    /\ calc' = [calc EXCEPT !.pc = "extracted", !.again = NormalizeText(calc.once)]
    /\ CalcFrame

\* ------------------------------------------------- policy URL resolver

\* CANONICAL_PATHS.refund and ALTERNATE_PATHS.refund on the page's origin,
\* policyResolver.ts:8-18, as buildCandidateUrls lists them,
\* policyResolver.ts:52-59.
BuildCandidateUrls == <<RefundUrl, AltUrl, "/pages/refund-policy", ReturnUrl>>

\* Help-center links whose hcUrl is one of the refund article paths, and
\* one about shipping options.
HcReturnsUrl == "/pages/help-center?hcUrl=%2Fen-us%2Freturns"

HcShippingOptionsUrl == "/pages/help-center?hcUrl=%2Fen-us%2Fshipping-options-prices-and-times"

\* The same-origin links a footer can hold, as resolveSameOriginHref
\* returns them, policyResolver.ts:132-140.
FooterUrls == {RefundUrl, ReturnUrl, "/pages/returns-faq", HelpCenterUrl, HcReturnsUrl, HcShippingOptionsUrl}

\* The scores findRefundCandidatesInFooter can give a link,
\* policyResolver.ts:119-124: none above zero, a low and a high one.
FooterScores == {0, 5, 11}

RECURSIVE FooterListsOfLength(_)
FooterListsOfLength(n) ==
    IF n = 0 THEN {<<>>}
    ELSE {<<[url |-> u, score |-> s]>> \o rest :
            u \in FooterUrls, s \in FooterScores, rest \in FooterListsOfLength(n - 1)}

FooterLists == UNION {FooterListsOfLength(n) : n \in 0..MaxLinks}

\* A variant of DedupeUrls that keeps every URL; C19 tells it from
\* DedupeUrls.
UrlsAsGiven(urls) == urls

\* dedupeUrls, policyResolver.ts:61-63: Array.from(new Set(urls)) keeps
\* the first of equal URLs, in order.
RECURSIVE DedupeUrls(_)
DedupeUrls(urls) ==
    IF urls = <<>> THEN <<>>
    ELSE LET front == DedupeUrls(SubSeq(urls, 1, Len(urls) - 1))
             last == urls[Len(urls)]
         IN  IF \E i \in 1..Len(front) : front[i] = last THEN front ELSE Append(front, last)

\* scored.sort((a, b) => b.score - a.score), policyResolver.ts:129: by
\* falling score, equal scores in the order of the links.
RECURSIVE SortByScore(_)
SortByScore(scored) ==
    IF scored = <<>> THEN <<>>
    ELSE LET top == CHOOSE i \in 1..Len(scored) :
                      /\ \A j \in 1..Len(scored) : scored[j].score <= scored[i].score
                      /\ \A j \in 1..(i - 1) : scored[j].score < scored[i].score
         IN  <<scored[top]>>
               \o SortByScore(SubSeq(scored, 1, top - 1) \o SubSeq(scored, top + 1, Len(scored)))

\* findRefundCandidatesInFooter, policyResolver.ts:98-130.
FindRefundCandidatesInFooter(links) ==
    LET scored == SelectSeq(links, LAMBDA link : link.score > 0)
        sorted == SortByScore(scored)
    IN  DedupeUrls([i \in 1..Len(sorted) |-> sorted[i].url])

\* policyResolver.ts:154, lower.includes('help-center').
IsHelpCenterLink(url) == url \in {HelpCenterUrl, HcReturnsUrl, HcShippingOptionsUrl}

\* expandHelpCenterRefundCandidates, policyResolver.ts:152-188: the link,
\* the link with each refund article path as hcUrl, and for a
\* shipping-options article the link with its path patched.
ExpandHelpCenterRefundCandidates(url) ==
    IF ~IsHelpCenterLink(url) THEN <<url>>
    ELSE DedupeUrls(
           <<url,
             "/pages/help-center?hcUrl=%2Fen-us%2Freturn-policy-and-process",
             "/pages/help-center?hcUrl=%2Fen-US%2Freturn-policy-and-process",
             "/pages/help-center?hcUrl=%2Fen-us%2Freturns",
             "/pages/help-center?hcUrl=%2Fen-US%2Freturns",
             "/pages/help-center?hcUrl=%2Fen-us%2Freturn-policy",
             "/pages/help-center?hcUrl=%2Fen-US%2Freturn-policy">>
           \o IF url = HcShippingOptionsUrl
              THEN <<"/pages/help-center?hcUrl=%2Fen-us%2Freturn-policy-and-process">>
              ELSE <<>>)

\* Array.prototype.flatMap, policyResolver.ts:32-34.
RECURSIVE FlatMapExpand(_)
FlatMapExpand(urls) ==
    IF urls = <<>> THEN <<>>
    ELSE ExpandHelpCenterRefundCandidates(Head(urls)) \o FlatMapExpand(Tail(urls))

\* resolvePolicyUrls, policyResolver.ts:30-45.
ResolvePolicyUrls(links) ==
    LET footerRefundCandidates == FlatMapExpand(FindRefundCandidatesInFooter(links))
        refundPolicyCandidates == DedupeUrls(BuildCandidateUrls \o footerRefundCandidates)
    IN  [refundPolicy |-> IF refundPolicyCandidates = <<>> THEN "null"
                          ELSE refundPolicyCandidates[1],
         refundPolicyCandidates |-> refundPolicyCandidates,
         shippingPolicy |-> ShippingUrl]

NoResolved == [refundPolicy |-> "null", refundPolicyCandidates |-> <<>>, shippingPolicy |-> "null"]

\* The content script resolves the policy URLs of the page.
ResolveUrls ==
    /\ calc.fn = "resolvePolicyUrls"
    /\ calc.pc = "page"
    /\ calc' = [calc EXCEPT !.pc = "resolved", !.urls = ResolvePolicyUrls(calc.footer)]
    /\ CalcFrame

\* ------------------------------------------------- return window

\* What strongestMatch found of NEGATIVE_RETURN_PATTERNS, extract.ts:216:
\* the matched phrase, or null.
HardNegatives == {"null", "no returns"}

\* One match of durationPattern, extract.ts:224-237: the duration read
\* from it, and what its clause holds: an anchor, a phrase such as
\* "within", a word such as "refund", a conditional such as "unless".
DurationMatches ==
    [value : {"30 days", "14 days"}, anchored : BOOLEAN, within : BOOLEAN,
     refundWord : BOOLEAN, conditional : BOOLEAN]

RECURSIVE MatchListsOfLength(_)
MatchListsOfLength(n) ==
    IF n = 0 THEN {<<>>}
    ELSE {<<mt>> \o rest : mt \in DurationMatches, rest \in MatchListsOfLength(n - 1)}

MatchLists == UNION {MatchListsOfLength(n) : n \in 0..MaxMatches}

\* A variant of EstimateConfidence with high from 4 on; C20 tells it from
\* EstimateConfidence.
EstimateConfidenceFromFour(score) ==
    IF score >= 4 THEN "high" ELSE IF score >= 3 THEN "medium" ELSE "low"

\* estimateConfidence, extract.ts:170-174.
EstimateConfidence(score) ==
    IF score >= 5 THEN "high" ELSE IF score >= 3 THEN "medium" ELSE "low"

\* extract.ts:234-237.
DurationScore(mt) ==
    3 + (IF mt.within THEN 1 ELSE 0) + (IF mt.refundWord THEN 1 ELSE 0)
      - (IF mt.conditional THEN 1 ELSE 0)

NoDuration == [value |-> "null", score |-> 0]

\* The loop of extract.ts:221-240: unanchored matches are passed over, a
\* match replaces the best one only with a higher score.
RECURSIVE BestDuration(_)
BestDuration(matches) ==
    IF matches = <<>> THEN NoDuration
    ELSE LET before == BestDuration(SubSeq(matches, 1, Len(matches) - 1))
             mt == matches[Len(matches)]
         IN  IF ~mt.anchored THEN before
             ELSE IF before = NoDuration \/ DurationScore(mt) > before.score
             THEN [value |-> mt.value, score |-> DurationScore(mt)]
             ELSE before

ExtractResult(value, confidence) == [value |-> value, confidence |-> confidence]

\* extractReturnWindow, extract.ts:215-264.
ExtractReturnWindow(hardNegative, matches, openEnded) ==
    LET best == BestDuration(matches)
    IN  IF hardNegative # "null" /\ best = NoDuration THEN ExtractResult(hardNegative, "high")
        ELSE IF hardNegative # "null" THEN ExtractResult(hardNegative, "medium")
        ELSE IF best # NoDuration THEN ExtractResult(best.value, EstimateConfidence(best.score))
        ELSE IF openEnded THEN ExtractResult("returns accepted", "medium")
        ELSE ExtractResult("null", "low")

\* extractPolicyFromText reads the return window, extract.ts:66.
ReadReturnWindow ==
    /\ calc.fn = "extractReturnWindow"
    /\ calc.pc = "text"
    /\ calc' = [calc EXCEPT !.pc = "read",
                   !.result = ExtractReturnWindow(calc.hardNegative, calc.matches, calc.openEnded)]
    /\ CalcFrame

\* ------------------------------------------------- condition requirements

\* One sentence of getSentences, extract.ts:286, as the loop of
\* extract.ts:290-300 reads it: how many of the keywords it includes,
\* whether FIELD_ANCHORS matches it, whether it holds "not" or "no".
ConditionSentences == [hits : 0..MaxHits, anchor : BOOLEAN, negated : BOOLEAN]

RECURSIVE SentenceListsOfLength(_)
SentenceListsOfLength(n) ==
    IF n = 0 THEN {<<>>}
    ELSE {<<s>> \o rest : s \in ConditionSentences, rest \in SentenceListsOfLength(n - 1)}

SentenceLists == UNION {SentenceListsOfLength(n) : n \in 0..MaxSentences}

\* extract.ts:294-296.
ConditionScore(sentence) ==
    sentence.hits + (IF sentence.anchor THEN 1 ELSE 0) - (IF sentence.negated THEN 1 ELSE 0)

\* extractConditionRequirements, extract.ts:266-308: sentences without a
\* keyword are passed over; bestScore starts at 0 and is the highest score
\* of the others; the value is what summarizeSentences joins of them.
ExtractConditionRequirements(sentences) ==
    LET matched == {k \in 1..Len(sentences) : sentences[k].hits > 0}
        bestScore == MaxOf({ConditionScore(sentences[k]) : k \in matched})
    IN  IF matched = {} THEN ExtractResult("null", "low")
        ELSE ExtractResult("qualifying sentences", EstimateConfidence(bestScore))

\* extractPolicyFromText reads the condition requirements, extract.ts:67.
ReadConditionRequirements ==
    /\ calc.fn = "extractConditionRequirements"
    /\ calc.pc = "text"
    /\ calc' = [calc EXCEPT !.pc = "read",
                   !.result = ExtractConditionRequirements(calc.sentences)]
    /\ CalcFrame

\* ------------------------------------------------- fees

\* One match of a pattern list as strongestMatch reads its clause,
\* extract.ts:201-205: whether FIELD_ANCHORS matches the clause, whether it
\* holds "if", "unless" or "except", and whether it holds a word such as
\* "return".
PatternMatches == [anchored : BOOLEAN, conditional : BOOLEAN, refundWord : BOOLEAN]

RECURSIVE PatternMatchListsOfLength(_)
PatternMatchListsOfLength(n) ==
    IF n = 0 THEN {<<>>}
    ELSE {<<mt>> \o rest : mt \in PatternMatches, rest \in PatternMatchListsOfLength(n - 1)}

PatternMatchLists == UNION {PatternMatchListsOfLength(n) : n \in 0..MaxMatches}

\* extract.ts:202-205.
ClauseScore(mt) ==
    (IF mt.anchored THEN 2 ELSE 0) + (IF mt.conditional THEN 1 ELSE 0)
      + (IF mt.refundWord THEN 2 ELSE 0)

NoMatch == [index |-> 0, score |-> 0]

\* strongestMatch, extract.ts:190-213: null without a match, else the
\* first match of the highest score, by its place in `matches`.
RECURSIVE StrongestMatch(_)
StrongestMatch(matches) ==
    IF matches = <<>> THEN NoMatch
    ELSE LET before == StrongestMatch(SubSeq(matches, 1, Len(matches) - 1))
             mt == matches[Len(matches)]
         IN  IF before = NoMatch \/ ClauseScore(mt) > before.score
             THEN [index |-> Len(matches), score |-> ClauseScore(mt)]
             ELSE before

\* extractFees, extract.ts:310-345: the value is the clause around the
\* match it reports.
ExtractFees(feeMatches, noFeeMatches) ==
    LET feeHit == StrongestMatch(feeMatches)
        noFeeHit == StrongestMatch(noFeeMatches)
    IN  IF feeHit # NoMatch /\ noFeeHit # NoMatch THEN ExtractResult("mixed clause", "medium")
        ELSE IF feeHit # NoMatch
        THEN ExtractResult("fee clause", EstimateConfidence(feeHit.score + 2))
        ELSE IF noFeeHit # NoMatch THEN ExtractResult("no-fee clause", "medium")
        ELSE ExtractResult("null", "low")

\* extractPolicyFromText reads the fees, extract.ts:68.
ReadFees ==
    /\ calc.fn = "extractFees"
    /\ calc.pc = "text"
    /\ calc' = [calc EXCEPT !.pc = "read",
                   !.result = ExtractFees(calc.feeMatches, calc.noFeeMatches)]
    /\ CalcFrame

\* ------------------------------------------------- one content-script run

\* window.location.pathname of the page a run starts on.
Paths ==
    {"/", "/products/shirt", "/pages/help-center", "/pages/faq",
     "/policies/refund-policy", "/POLICIES/Refund-Policy", "/policies/privacy-policy",
     "/pages/return-policy", "/pages/returnpolicy", "/pages/refund-info", "/pages/shipping"}

\* String.prototype.toLowerCase over Paths, policyResolver.ts:194.
PathToLowerCase(path) ==
    IF path = "/POLICIES/Refund-Policy" THEN "/policies/refund-policy" ELSE path

\* The fragments of isPolicyPage, policyResolver.ts:196-200, that a
\* lower-cased path of Paths includes.
PathFragments(lower) ==
    CASE lower \in {"/policies/refund-policy", "/policies/privacy-policy"} -> {"/policies/"}
      [] lower = "/pages/return-policy" -> {"/pages/return"}
      [] lower = "/pages/returnpolicy" -> {"/pages/return", "/pages/returnpolicy"}
      [] lower = "/pages/refund-info" -> {"/pages/refund"}
      [] lower = "/pages/shipping" -> {"/pages/shipping"}
      [] OTHER -> {}

\* isPolicyPage, policyResolver.ts:193-202.
IsPolicyPage(path) ==
    PathFragments(PathToLowerCase(path))
      \cap {"/policies/", "/pages/return", "/pages/returnpolicy", "/pages/refund",
            "/pages/shipping"} # {}

\* A variant of PolicyPageAccepted without the quality guard; C26 tells
\* it from PolicyPageAccepted.
PolicyPageAcceptedUnscored(quality) == TRUE

\* content.ts:39, the guard against false positives.
PolicyPageAccepted(quality) == quality >= 6

\* content.ts:27-31: detectShopify, SHOPIFY_DETECTED, and the return on a
\* page that is no storefront.
RunDetects ==
    /\ calc.fn = "run"
    /\ calc.pc = "start"
    /\ calc' = [calc EXCEPT
                  !.pc = IF calc.confidence >= 25 THEN "detected" ELSE "returned",
                  !.sent = Append(@, [type |-> "SHOPIFY_DETECTED", urls |-> NoUrls])]
    /\ CalcFrame

\* content.ts:33-53 and 57-63: on a policy-shaped path the page text is
\* read and scored; reading it throws and ERROR is sent, or it scores >= 6
\* and POLICY_PAGE_FOUND is sent, or the run goes on to the candidates.
RunReadsPage ==
    /\ calc.fn = "run"
    /\ calc.pc = "detected"
    /\ calc' = IF ~IsPolicyPage(calc.path)
               THEN [calc EXCEPT !.pc = "resolving"]
               ELSE IF calc.readThrows
               THEN [calc EXCEPT !.pc = "caught",
                        !.sent = Append(@, [type |-> "ERROR", urls |-> NoUrls])]
               ELSE IF PolicyPageAccepted(calc.quality)
               THEN [calc EXCEPT !.pc = "returned",
                        !.sent = Append(@, [type |-> "POLICY_PAGE_FOUND", urls |-> NoUrls])]
               ELSE [calc EXCEPT !.pc = "resolving"]
    /\ CalcFrame

\* content.ts:55-56: resolvePolicyUrls returns and POLICY_URLS_RESOLVED is
\* sent.
RunResolves ==
    /\ calc.fn = "run"
    /\ calc.pc = "resolving"
    /\ \E urls \in UrlChoices :
         calc' = [calc EXCEPT !.pc = "returned", !.resolveCalls = @ + 1,
                     !.sent = Append(@, [type |-> "POLICY_URLS_RESOLVED", urls |-> urls])]
    /\ CalcFrame

\* content.ts:55 and 57-63: resolvePolicyUrls throws and ERROR is sent.
RunResolveThrows ==
    /\ calc.fn = "run"
    /\ calc.pc = "resolving"
    /\ calc' = [calc EXCEPT !.pc = "caught", !.resolveCalls = @ + 1,
                   !.sent = Append(@, [type |-> "ERROR", urls |-> NoUrls])]
    /\ CalcFrame

\* ------------------------------------------------- RUN_DETECTION

\* The RUN_DETECTION requests followed, both for the same tab: the popup's
\* button pressed twice, or two popups.
Requests == {1, 2}

\* A request: where its handler is, how often its sendResponse was
\* called, its 4 s timer, and the executeScript it issued.
NewRequest == [pc |-> "received", responses |-> 0, timer |-> "none", inject |-> "none"]

\* pendingRunDetection.get(runTabId), background.ts:31-37: 0 without an
\* entry, else the request whose resolve and timeoutId the entry holds.
NoPending == 0

\* The entry of the tab is taken out, its timer cleared and its resolve
\* called: resolveWith, background.ts:109-115, and the SHOPIFY_DETECTED
\* case, background.ts:61-66.  Without an entry nothing happens.
ResolveEntry(run, by) ==
    IF run.pending = NoPending THEN run
    ELSE LET owner == run.pending
         IN  [run EXCEPT !.pending = NoPending,
                         !.req[owner].responses = @ + 1,
                         !.req[owner].timer = "cleared",
                         !.crossed = @ \/ (by # 0 /\ by # owner)]

\* background.ts:117-136: chrome.tabs.get resolves; for a tab without an
\* http(s) URL, and when it rejects, the request is answered at once;
\* else the timer is set, the entry is stored over any entry of the tab
\* and the content script is injected.
RunDetectionTabsGet(q) ==
    /\ calc.fn = "runDetection"
    /\ calc.req[q].pc = "received"
    /\ \E tabOk \in BOOLEAN :
         calc' = IF tabOk
                 THEN [calc EXCEPT !.pending = q,
                                   !.req[q] = [@ EXCEPT !.pc = "waiting", !.timer = "live",
                                                        !.inject = "issued"]]
                 ELSE [calc EXCEPT !.req[q] = [@ EXCEPT !.pc = "refused",
                                                        !.responses = @ + 1]]
    /\ CalcFrame

\* background.ts:123-125: the 4 s of a request's timer are over.
RunDetectionTimeout(q) ==
    /\ calc.fn = "runDetection"
    /\ calc.req[q].timer = "live"
    /\ calc' = ResolveEntry([calc EXCEPT !.req[q].timer = "fired"], q)
    /\ CalcFrame

\* background.ts:130-134: executeScript of a request rejects.
RunDetectionInjectFails(q) ==
    /\ calc.fn = "runDetection"
    /\ calc.req[q].inject = "issued"
    /\ calc' = ResolveEntry([calc EXCEPT !.req[q].inject = "failed"], q)
    /\ CalcFrame

\* background.ts:53-69: the content script a request injected has run
\* and its SHOPIFY_DETECTED arrives.
RunDetectionDetected(q) ==
    /\ calc.fn = "runDetection"
    /\ calc.req[q].inject = "issued"
    /\ calc' = ResolveEntry([calc EXCEPT !.req[q].inject = "ran"], 0)
    /\ CalcFrame

\* background.ts:53-69: the SHOPIFY_DETECTED of the tab's own page load
\* arrives.
RunDetectionPageLoad ==
    /\ calc.fn = "runDetection"
    /\ calc.pageLoads > 0
    /\ calc' = ResolveEntry([calc EXCEPT !.pageLoads = @ - 1], 0)
    /\ CalcFrame

\* ------------------------------------------------- tab reset

\* tabStates.get(tabId) without an entry, background.ts:28.
AbsentState ==
    [detection |-> "absent", summary |-> "absent", status |-> "absent", fromCache |-> "absent"]

\* The default of `tabStates.get(tabId) ?? {...}`, background.ts:243, 262.
DefaultState ==
    [detection |-> "null", summary |-> "null", status |-> "idle", fromCache |-> "false"]

\* `{ ...tabStates.get(tabId)! }`, background.ts:250, 271, 278, 312: the
\* spread of undefined has no property, so every field of the new object
\* that the literal does not name stays undefined.
SpreadOfGet(entry) ==
    IF entry = AbsentState
    THEN [detection |-> "undefined", summary |-> "undefined", status |-> "undefined",
          fromCache |-> "undefined"]
    ELSE entry

\* `tabStates.get(tabId) ?? default`, background.ts:243, 262.
GetOrDefault(entry) == IF entry = AbsentState THEN DefaultState ELSE entry

\* The states of the tab when POLICY_PAGE_FOUND or POLICY_URLS_RESOLVED
\* arrives: handleShopifyDetected has written, over no entry or over the
\* entry of an earlier run (background.ts:205-206).
DetectedStates ==
    { [detection |-> "page", summary |-> summary, status |-> "detecting",
       fromCache |-> fromCache] :
        summary \in {"null", "cached", "extracted"}, fromCache \in {"false", "true"} }

\* A write of a handler of the page that was open before the reset;
\* `stale` records that it came after a reset.
HandlerWrites(entry, pc) ==
    calc' = [calc EXCEPT !.entry = entry, !.pc = pc,
                         !.stale = @ \/ calc.reset # "none"]

\* onMessage, background.ts:71-72 and 137-138: the message is dispatched
\* and its handler awaits getCachedSummary, background.ts:179.
HandlerBegins ==
    /\ calc.fn = "tabReset"
    /\ calc.pc = "arrived"
    /\ calc' = [calc EXCEPT !.pc = "cacheRead"]
    /\ CalcFrame

\* handlePolicyPageFound and handlePolicyUrlsResolved, background.ts:241
\* and 260 with tryUseCachedSummary, background.ts:177-191: the cache
\* holds a summary and it is written onto the state.
HandlerUsesCache ==
    /\ calc.fn = "tabReset"
    /\ calc.pc = "cacheRead"
    /\ HandlerWrites([GetOrDefault(calc.entry) EXCEPT
                        !.summary = "cached", !.status = "done", !.fromCache = "true"],
                     "returned")
    /\ CalcFrame

\* background.ts:243-244, and 262-271 with candidates: the cache holds
\* nothing and the state goes to extracting.
HandlerStartsExtracting ==
    /\ calc.fn = "tabReset"
    /\ calc.pc = "cacheRead"
    /\ LET current == GetOrDefault(calc.entry)
       IN  HandlerWrites([current EXCEPT !.status = "extracting"], "extracting")
    /\ CalcFrame

\* background.ts:250, 278, 289, 307: the summary is built and cached and
\* written onto the state.
HandlerStoresSummary ==
    /\ calc.fn = "tabReset"
    /\ calc.pc = "extracting"
    /\ HandlerWrites([SpreadOfGet(calc.entry) EXCEPT
                        !.summary = "extracted", !.status = "done", !.fromCache = "false"],
                     "returned")
    /\ CalcFrame

\* background.ts:312: no usable candidate.
HandlerFindsNothing ==
    /\ calc.fn = "tabReset"
    /\ calc.pc = "extracting"
    /\ calc.kind = "POLICY_URLS_RESOLVED"
    /\ HandlerWrites([SpreadOfGet(calc.entry) EXCEPT !.status = "done", !.fromCache = "false"],
                     "returned")
    /\ CalcFrame

\* background.ts:78-85 and 141-148: the handler's promise rejects.
HandlerRejects ==
    /\ calc.fn = "tabReset"
    /\ calc.pc = "extracting"
    /\ HandlerWrites([GetOrDefault(calc.entry) EXCEPT !.status = "error"], "returned")
    /\ CalcFrame

\* chrome.tabs.onRemoved, background.ts:556.
OnTabRemoved ==
    /\ calc.fn = "tabReset"
    /\ calc.reset = "none"
    /\ calc' = [calc EXCEPT !.entry = AbsentState, !.reset = "removed"]
    /\ CalcFrame

\* chrome.tabs.onUpdated with status 'loading', background.ts:558-563.
OnTabLoading ==
    /\ calc.fn = "tabReset"
    /\ calc.reset = "none"
    /\ calc' = [calc EXCEPT !.entry = AbsentState, !.reset = "loading"]
    /\ CalcFrame

\* handleShopifyDetected, background.ts:202-206, for the page the tab
\* loaded after the reset.
NewPageDetected ==
    /\ calc.fn = "tabReset"
    /\ calc.reset = "loading"
    /\ ~calc.notified
    /\ calc' = [calc EXCEPT !.notified = TRUE,
                   !.entry = [GetOrDefault(calc.entry) EXCEPT
                                !.detection = "new page", !.status = "detecting"]]
    /\ CalcFrame

\* ------------------------------------------------- specification

\* The service worker and the cache at rest, before any message.
WorkerIdle ==
    /\ now = 0
    /\ storage = [d \in Domains |-> NoEntry]
    /\ otherBytes = STORAGE_PRUNE_THRESHOLD
    /\ cop = [c \in Runs |-> NoCall]
    /\ lastSet = [d \in Domains |-> NoEntry]
    /\ tab = NoTab
    /\ badge = ""
    /\ cs = [r \in Runs |-> [pc |-> "init", detection |-> NoDetection]]
    /\ inbox = [r \in Runs |-> <<>>]
    /\ h = [r \in Runs |-> NoHandler]
    /\ latest = 0
    /\ step = Quiet

Init ==
    /\ now = 0
    /\ storage = [d \in Domains |-> NoEntry]
    /\ otherBytes = STORAGE_PRUNE_THRESHOLD
    /\ cop = [c \in Runs |-> NoCall]
    /\ lastSet = [d \in Domains |-> NoEntry]
    /\ tab = NoTab
    /\ badge = ""
    /\ cs = [r \in Runs |-> [pc |-> "init", detection |-> NoDetection]]
    /\ inbox = [r \in Runs |-> <<>>]
    /\ h = [r \in Runs |-> NoHandler]
    /\ latest = 0
    /\ step = Quiet
    /\ ResolveIdle
    /\ CalcIdle
    /\ BackendIdle

Next ==
    \/ Tick
    \/ \E r \in Runs :
          \/ CsRun(r)
          \/ CsResolved(r)
          \/ CsThrow(r)
          \/ OnShopifyDetected(r)
          \/ OnPolicyMessage(r)
          \/ OnError(r)
          \/ HCacheResult(r)
          \/ HFetchResult(r)
          \/ HRenderResult(r)
          \/ HShipResult(r)
          \/ HRemoteAnswer(r)
          \/ HCacheSetDone(r)
          \/ CacheGetRead(r)
          \/ CacheGetRemove(r)
          \/ CacheSetBytes(r)
          \/ CachePruneGet(r)
          \/ CachePruneRemove(r)
          \/ CacheSetWrite(r)
          \/ CacheReject(r)

Spec == Init /\ [][Next]_vars

\* ------------------------------------------- the cache under bare callers

\* The summary caller c stores: it names its writer.
ClientSummary(c) == [by |-> c, src |-> "local", url |-> "client", text |-> NoText]

TtlChoices == {0, DEFAULT_TTL_MS}

ClientGet(c) ==
    /\ cop[c].pc = "none"
    /\ \E d \in Domains : cop' = [cop EXCEPT ![c] = StartGet(d)]
    /\ UNCHANGED <<now, storage, otherBytes, lastSet>>
    /\ Aside

ClientSet(c) ==
    /\ cop[c].pc = "none"
    /\ \E d \in Domains, ttlMs \in TtlChoices :
          cop' = [cop EXCEPT ![c] = StartSet(d, ClientSummary(c), ttlMs)]
    /\ UNCHANGED <<now, storage, otherBytes, lastSet>>
    /\ Aside

ClientReturn(c) ==
    /\ cop[c].pc \in {"ret", "threw"}
    /\ cop' = [cop EXCEPT ![c] = NoCall]
    /\ UNCHANGED <<now, storage, otherBytes, lastSet>>
    /\ Aside

CacheInit ==
    /\ now = 0
    /\ storage = [d \in Domains |-> NoEntry]
    /\ otherBytes \in {0, STORAGE_PRUNE_THRESHOLD}
    /\ cop = [c \in Runs |-> NoCall]
    /\ lastSet = [d \in Domains |-> NoEntry]
    /\ tab = NoTab
    /\ badge = ""
    /\ cs = [r \in Runs |-> [pc |-> "init", detection |-> NoDetection]]
    /\ inbox = [r \in Runs |-> <<>>]
    /\ h = [r \in Runs |-> NoHandler]
    /\ latest = 0
    /\ step = Quiet
    /\ ResolveIdle
    /\ CalcIdle
    /\ BackendIdle

CacheNext ==
    \/ Tick
    \/ \E c \in Runs :
          \/ ClientGet(c)
          \/ ClientSet(c)
          \/ ClientReturn(c)
          \/ CacheGetRead(c)
          \/ CacheGetRemove(c)
          \/ CacheSetBytes(c)
          \/ CachePruneGet(c)
          \/ CachePruneRemove(c)
          \/ CacheSetWrite(c)
          \/ CacheReject(c)


CacheSpec == CacheInit /\ [][CacheNext]_vars


\* One POLICY_URLS_RESOLVED message past its cache miss, followed load by
\* load: the candidate walk, the shipping fallback, the render fallback
\* and the hidden tabs it opens.
ResolveInit ==
    /\ WorkerIdle
    /\ CalcIdle
    /\ BackendIdle
    /\ loads = <<>>
    /\ hidden = <<>>
    /\ \E list \in ResolveLists, shipping \in {"null", ShippingUrl} :
         res = [NoResolve EXCEPT !.pc = "start",
                   !.urls = PolicyUrls(IF list = <<>> THEN "null" ELSE list[1],
                                       TRUE, list, shipping)]

ResolveNext ==
    \/ ResolveBegin
    \/ ResolveFetch
    \/ ResolveShip
    \/ ResolveCreate
    \/ ResolveWait
    \/ ResolveScript
    \/ \E i \in 1..RENDER_FALLBACK_CANDIDATE_LIMIT :
         \/ TabClosedExternally(i)
         \/ TabRemoveDone(i)
         \/ TabRemoveRejected(i)

ResolveSpec == ResolveInit /\ [][ResolveNext]_vars

\* One call of buildSummary: the text is posted to POST /extract, which
\* is unreachable, or whose language model fails, or answers with any
\* keys, values and levels.
SummaryInit ==
    /\ WorkerIdle
    /\ ResolveIdle
    /\ BackendIdle
    /\ \/ \E keys \in LlmKeySets, pairs \in [FIELDS -> LlmPairs] :
            LET answer(k) == IF k \in FIELDS THEN pairs[k] ELSE <<"text", "high">>
            IN  calc = [fn |-> "buildSummary", pc |-> "post", remote |-> "answers",
                        llm |-> [fields |-> [k \in keys |-> answer(k)[1]],
                                 confidence |-> [k \in keys |-> answer(k)[2]]],
                        data |-> EmptyResult, summary |-> NoShape]
       \/ \E remote \in {"modelFails", "unreachable"} :
            calc = [fn |-> "buildSummary", pc |-> "post", remote |-> remote,
                    llm |-> NoAnswer, data |-> EmptyResult, summary |-> NoShape]

SummaryNext ==
    \/ ExtractorAnswers
    \/ BuildSummaryReturn
    \/ BuildSummaryFallsBack

SummarySpec == SummaryInit /\ [][SummaryNext]_vars

\* One click on Save Snapshot in the popup.
SaveInit ==
    /\ WorkerIdle
    /\ ResolveIdle
    /\ BackendIdle
    /\ \E policyUrl \in SavedPolicyUrls, tabUrl \in TabUrls, lastError \in BOOLEAN, rawToken \in RawTokens :
         calc = [fn |-> "saveSnapshot", pc |-> "click",
                 summary |-> SavedSummary(policyUrl, UndefinedUrl),
                 tab |-> tabUrl, lastError |-> lastError, rawToken |-> rawToken,
                 payload |-> NoPayload]

SaveNext ==
    \/ HandleSaveSnapshot
    \/ SaveSnapshot

SaveSpec == SaveInit /\ [][SaveNext]_vars

\* The snapshots API over an empty policy_snapshots table.
BackendInit ==
    /\ WorkerIdle
    /\ ResolveIdle
    /\ CalcIdle
    /\ db = <<>>
    /\ resp = [last |-> NoReply, flight |-> [s \in Slots |-> NoCreate]]

BackendNext ==
    \/ \E slot \in Slots, header \in Authorizations, store \in StoreDomains, summary \in SummaryParams :
         CreateValidate(slot, header, store, summary)
    \/ \E slot \in Slots : CreateInsert(slot)

BackendSpec == BackendInit /\ [][BackendNext]_vars

\* The tables of at most MaxSnapshots rows that creations leave behind:
\* no two rows of a store share a checksum and no two rows share a reading
\* of Time.current, in any order of the ids.
SnapshotTables ==
    UNION { { t \in [1..n -> { SnapshotRow(store, user, Checksum(summary), at) :
                                 store \in StoreDomains, user \in Users,
                                 summary \in SummaryParams \ {"none"}, at \in 1..n }] :
                \A i, j \in 1..n :
                  i # j => /\ SameContent(t, t[i].store, t[i].checksum) = {i}
                           /\ t[i].extracted_at # t[j].extracted_at }
            : n \in 0..MaxSnapshots }

\* GET /api/v1/snapshots over any such table.
IndexInit ==
    /\ WorkerIdle
    /\ ResolveIdle
    /\ CalcIdle
    /\ db \in SnapshotTables
    /\ resp = [last |-> NoReply, flight |-> [s \in Slots |-> NoCreate]]

IndexNext ==
    \E header \in Authorizations, pageParam \in PageParams, perPageParam \in PerPageParams,
       storeFilter \in {"absent", "a.shop"} :
      Index(header, pageParam, perPageParam, storeFilter)

IndexSpec == IndexInit /\ [][IndexNext]_vars

\* stripHtmlToText over every page of at most MaxLen characters.
StripInit ==
    /\ WorkerIdle
    /\ ResolveIdle
    /\ BackendIdle
    /\ \E html \in Texts :
         calc = [fn |-> "stripHtmlToText", pc |-> "input", html |-> html,
                 once |-> NoTextYet, again |-> NoTextYet]

StripNext ==
    \/ StripOnce
    \/ StripAgain
    \/ ExtractNormalizes

StripSpec == StripInit /\ [][StripNext]_vars

\* resolvePolicyUrls over every footer of at most MaxLinks links.
ResolverInit ==
    /\ WorkerIdle
    /\ ResolveIdle
    /\ BackendIdle
    /\ \E footer \in FooterLists :
         calc = [fn |-> "resolvePolicyUrls", pc |-> "page", footer |-> footer,
                 urls |-> NoResolved]

ResolverNext == ResolveUrls

ResolverSpec == ResolverInit /\ [][ResolverNext]_vars

\* extractReturnWindow over every text of at most MaxMatches durations.
WindowInit ==
    /\ WorkerIdle
    /\ ResolveIdle
    /\ BackendIdle
    /\ \E hardNegative \in HardNegatives, matches \in MatchLists, openEnded \in BOOLEAN :
         calc = [fn |-> "extractReturnWindow", pc |-> "text",
                 hardNegative |-> hardNegative, matches |-> matches, openEnded |-> openEnded,
                 result |-> ExtractResult("null", "low")]

WindowNext == ReadReturnWindow

WindowSpec == WindowInit /\ [][WindowNext]_vars

\* ------------------------------------------- the condition extractor alone

ConditionInit ==
    /\ WorkerIdle
    /\ ResolveIdle
    /\ BackendIdle
    /\ \E sentences \in SentenceLists :
         calc = [fn |-> "extractConditionRequirements", pc |-> "text",
                 sentences |-> sentences, result |-> ExtractResult("null", "low")]

ConditionNext == ReadConditionRequirements

ConditionSpec == ConditionInit /\ [][ConditionNext]_vars

\* ------------------------------------------- the fee extractor alone

FeesInit ==
    /\ WorkerIdle
    /\ ResolveIdle
    /\ BackendIdle
    /\ \E feeMatches \in PatternMatchLists, noFeeMatches \in PatternMatchLists :
         calc = [fn |-> "extractFees", pc |-> "text",
                 feeMatches |-> feeMatches, noFeeMatches |-> noFeeMatches,
                 result |-> ExtractResult("null", "low")]

FeesNext == ReadFees

FeesSpec == FeesInit /\ [][FeesNext]_vars

\* ------------------------------------------- one content-script run alone

RunInit ==
    /\ WorkerIdle
    /\ ResolveIdle
    /\ BackendIdle
    /\ \E path \in Paths, confidence \in Confidences, quality \in Qualities,
          readThrows \in BOOLEAN :
         calc = [fn |-> "run", pc |-> "start", path |-> path, confidence |-> confidence,
                 quality |-> quality, readThrows |-> readThrows,
                 sent |-> <<>>, resolveCalls |-> 0]

RunNext ==
    \/ RunDetects
    \/ RunReadsPage
    \/ RunResolves
    \/ RunResolveThrows

RunSpec == RunInit /\ [][RunNext]_vars

\* ------------------------------------------- RUN_DETECTION alone

RunDetectionInit ==
    /\ WorkerIdle
    /\ ResolveIdle
    /\ BackendIdle
    /\ \E pageLoads \in 0..1 :
         calc = [fn |-> "runDetection", req |-> [q \in Requests |-> NewRequest],
                 pending |-> NoPending, crossed |-> FALSE, pageLoads |-> pageLoads]

RunDetectionNext ==
    \/ \E q \in Requests :
         \/ RunDetectionTabsGet(q)
         \/ RunDetectionTimeout(q)
         \/ RunDetectionInjectFails(q)
         \/ RunDetectionDetected(q)
    \/ RunDetectionPageLoad

RunDetectionSpec == RunDetectionInit /\ [][RunDetectionNext]_vars

\* ------------------------------------------- a tab reset under a handler

TabResetInit ==
    /\ WorkerIdle
    /\ ResolveIdle
    /\ BackendIdle
    /\ \E entry \in DetectedStates, kind \in {"POLICY_PAGE_FOUND", "POLICY_URLS_RESOLVED"} :
         calc = [fn |-> "tabReset", kind |-> kind, pc |-> "arrived", entry |-> entry,
                 reset |-> "none", notified |-> FALSE, stale |-> FALSE]

TabResetNext ==
    \/ HandlerBegins
    \/ HandlerUsesCache
    \/ HandlerStartsExtracting
    \/ HandlerStoresSummary
    \/ HandlerFindsNothing
    \/ HandlerRejects
    \/ OnTabRemoved
    \/ OnTabLoading
    \/ NewPageDetected

TabResetSpec == TabResetInit /\ [][TabResetNext]_vars

\* ------------------------------------------- the extension under fairness

\* Every message sent is delivered, every script injected runs, and every
\* fetch, render, storage call and remote call is answered: each step of
\* the content script, of onMessage, of the handlers and of the cache
\* that stays possible is taken.  Time need not advance.
Fairness ==
    \A r \in Runs :
      /\ WF_vars(CsRun(r))
      /\ WF_vars(CsResolved(r) \/ CsThrow(r))
      /\ WF_vars(OnShopifyDetected(r))
      /\ WF_vars(OnPolicyMessage(r))
      /\ WF_vars(OnError(r))
      /\ WF_vars(HCacheResult(r))
      /\ WF_vars(HFetchResult(r))
      /\ WF_vars(HRenderResult(r))
      /\ WF_vars(HShipResult(r))
      /\ WF_vars(HRemoteAnswer(r))
      /\ WF_vars(HCacheSetDone(r))
      /\ WF_vars(CacheGetRead(r))
      /\ WF_vars(CacheGetRemove(r))
      /\ WF_vars(CacheSetBytes(r))
      /\ WF_vars(CachePruneGet(r))
      /\ WF_vars(CachePruneRemove(r))
      /\ WF_vars(CacheSetWrite(r) \/ CacheReject(r))

FairSpec == Init /\ [][Next]_vars /\ Fairness

\* ------------------------------------------------- claims

\* The last step was a handler's write to tabStates (a detection writes
\* "detecting", a handler never does).
HandlerWrote(s) == s.writes # <<>> /\ s.writes[1] # "detecting"

\* C1: of two detection notifications for the same tab whose extractions
\* overlap, only the later one's handler writes ContextState once the
\* later notification has been received: no continuation of the earlier
\* handler writes after it, so the final state is the later one's outcome.
C1_LatestNotificationWins ==
    [][HandlerWrote(step') => step'.by = latest']_vars

\* C2: when handlePolicyUrlsResolved ends with no usable candidate and no
\* shipping fallback, the tab's state is status done with summary null,
\* whatever the state was before.
C2_NotFoundHasNullSummary ==
    [][step'.ended = "notFound" => (tab'.status = "done" /\ tab'.summary = NoSummary)]_vars

\* The step handles the ERROR message of run r's content script.
ErrorHandled(r) ==
    /\ inbox[r] # <<>>
    /\ Head(inbox[r]).type = "ERROR"
    /\ inbox'[r] = Tail(inbox[r])

\* C3: every exception of the content script's run or of a handler leaves
\* the tab with status error and a non-empty error message.
C3_ExceptionSurfacesAsError ==
    [][((\E r \in Runs : ErrorHandled(r)) \/ step'.ended = "threw")
         => (tab'.status = "error" /\ tab'.errorMessage \notin {"undefined", ""})]_vars

RemoteFailures == {"networkError", "abort", "non2xx", "malformedBody", "noUsefulField"}

\* C5: for a failing or useless answer of the remote extractor,
\* buildSummary returns the local extraction of the same compacted text,
\* the remote call writes no status, and the handler ends at done with
\* the summary it built.
C5_RemoteFailureFallsBack ==
    [][\A r \in Runs :
          /\ (h[r].pc = "remote" /\ step'.by = r /\ step'.answer \in RemoteFailures)
               => /\ h[r].text.compact
                  /\ h'[r].summary = [by |-> r, src |-> "local", url |-> h[r].url, text |-> h[r].text]
                  /\ tab' = tab
          /\ (h[r].pc = "cacheSet" /\ step'.by = r)
               => /\ step'.ended = "built"
                  /\ tab'.status = "done"
                  /\ tab'.summary = h[r].summary]_vars

\* C5 witness: a remote failure was just answered by the local extractors.
C5_Witness ==
    /\ step.answer \in RemoteFailures
    /\ h[step.by].pc = "cacheSet"
    /\ h[step.by].summary.src = "local"

\* The step handles the SHOPIFY_DETECTED message of run r.
DetectionHandled(r) ==
    /\ inbox[r] # <<>>
    /\ Head(inbox[r]).type = "SHOPIFY_DETECTED"
    /\ inbox'[r] = Tail(inbox[r])

\* C6: after a detection with isShopify = false is handled the badge text
\* is empty and the tab's status is idle.
C6_NonStorefrontStaysIdle ==
    [][\A r \in Runs :
          (DetectionHandled(r) /\ ~cs[r].detection.isShopify)
            => (badge' = "" /\ tab'.status = "idle")]_vars

\* The edges of idle -> detecting -> {fetching | extracting} -> {done | error};
\* a detection notification puts any state in detecting.
StatusEdges ==
    { <<"idle", "detecting">>, <<"detecting", "fetching">>, <<"detecting", "extracting">>,
      <<"fetching", "extracting">>, <<"fetching", "done">>, <<"fetching", "error">>,
      <<"extracting", "done">>, <<"extracting", "error">> }

AllowedChange(from, to) == to = "detecting" \/ <<from, to>> \in StatusEdges

\* C7: every write of a status follows an edge of the state machine; done
\* and error are left only by a new detection.
C7_StatusFollowsEdges ==
    [][\A i \in 1..Len(step'.writes) :
          AllowedChange(IF i = 1 THEN Current.status ELSE step'.writes[i - 1],
                        step'.writes[i])]_vars

\* The step is the segment of handlePolicyUrlsResolved that follows the
\* return of tryUseCachedSummary's cache read.
UrlsCacheAnswered(r) ==
    /\ h[r].kind = "POLICY_URLS_RESOLVED"
    /\ h[r].pc = "cache"
    /\ step'.by = r
    /\ h'[r] # h[r]

\* C8: the cache read of a POLICY_URLS_RESOLVED handler returns a summary
\* exactly when storage holds an unexpired entry of the domain; the
\* handler then writes done with that summary and fromCache = true and
\* ends there, with no cache call, fetch, render or remote call after it;
\* otherwise the first status it writes is fetching.
C8_CacheHitShortCircuits ==
    [][\A r \in Runs :
          /\ (h[r].kind = "POLICY_URLS_RESOLVED" /\ cop[r].pc = "get" /\ cop'[r].pc \in {"ret", "getRemove"})
               => LET entry == storage[StoreDomain]
                  IN  (cop'[r].pc = "ret" /\ cop'[r].result # NoSummary)
                        <=> (entry # NoEntry /\ now <= entry.cachedAt + entry.ttl)
          /\ (UrlsCacheAnswered(r) /\ cop[r].pc = "ret" /\ cop[r].result # NoSummary)
               => /\ step'.writes = <<"done">>
                  /\ tab'.status = "done"
                  /\ tab'.summary = cop[r].result
                  /\ tab'.fromCache
                  /\ h'[r].pc = "done"
                  /\ cop'[r] = NoCall
                  /\ storage' = storage
          /\ (UrlsCacheAnswered(r) /\ ~(cop[r].pc = "ret" /\ cop[r].result # NoSummary))
               => step'.writes[1] = "fetching"
          /\ h[r].pc = "done" => (h'[r] = h[r] /\ cop'[r] = NoCall)]_vars

\* C8 witness: a handler has just ended on a cache hit.
C8_Witness ==
    /\ step.ended = "hit"
    /\ tab.status = "done"
    /\ tab.fromCache
    /\ tab.summary # NoSummary

\* C9: getCachedSummary returns the stored summary exactly when
\* now <= cachedAt + ttl; for an expired entry it returns null and the
\* entry is removed from storage.
C9_ReadReturnsOnlyUnexpired ==
    [][\A c \in Runs :
          /\ (cop[c].pc = "get" /\ cop'[c].pc \in {"ret", "getRemove"})
               => LET entry == storage[cop[c].key]
                  IN  IF entry # NoEntry /\ now <= entry.cachedAt + entry.ttl
                      THEN /\ cop'[c].pc = "ret"
                           /\ cop'[c].result = entry.summary
                           /\ entry = lastSet[cop[c].key]
                      ELSE /\ cop'[c].result = NoSummary
                           /\ cop'[c].pc = IF entry = NoEntry THEN "ret" ELSE "getRemove"
          /\ (cop[c].pc = "getRemove" /\ cop'[c].pc = "ret")
               => /\ storage'[cop[c].key] = NoEntry
                  /\ cop'[c].result = NoSummary]_vars

\* C9 witness: a read of an expired entry has returned null with the
\* entry removed.
C9_Witness ==
    \E c \in Runs :
        /\ cop[c].op = "get"
        /\ cop[c].pc = "ret"
        /\ cop[c].result = NoSummary
        /\ storage[cop[c].key] = NoEntry
        /\ lastSet[cop[c].key] # NoEntry
        /\ now > lastSet[cop[c].key].cachedAt + lastSet[cop[c].key].ttl

\* C10: under any interleaving of cache calls no unexpired entry is
\* removed, and once no call is in flight storage holds, for each domain,
\* the entry of the last completed setCachedSummary while it is unexpired.
C10_LastWriteWins ==
    [][/\ \A d \in Domains :
            (storage[d] # NoEntry /\ storage'[d] = NoEntry)
              => now > storage[d].cachedAt + storage[d].ttl
       /\ (\A c \in Runs : cop'[c].pc = "none")
            => \A d \in Domains :
                 (lastSet'[d] # NoEntry /\ now' <= lastSet'[d].cachedAt + lastSet'[d].ttl)
                   => storage'[d] = lastSet'[d]]_vars

\* C11: the direct fetches follow the candidate list, one per candidate
\* in list order, and a fetched candidate of quality >= 8 is the last
\* page load of the resolution: nothing after it is fetched and nothing
\* before it is fetched or rendered again; its text builds the summary.
C11_EarlyExitStopsProbing ==
    LET candidates == Candidates(res.urls)
    IN  \A k \in 1..Len(loads) :
          (loads[k].via = "fetch" /\ candidates # <<>>)
            => /\ k <= Len(candidates)
               /\ loads[k].url = candidates[k]
               /\ (loads[k].ok /\ loads[k].quality >= EARLY_EXIT_QUALITY)
                    => /\ k = Len(loads)
                       /\ res.pc = "built"
                       /\ res.used = Candidate(loads[k].url, "fetch", loads[k].quality)

\* C11 witness: of three candidates only the third scored >= 8 and the
\* resolution ended with it.
C11_Witness ==
    /\ Len(loads) = 3
    /\ loads[1].quality < EARLY_EXIT_QUALITY
    /\ loads[2].quality < EARLY_EXIT_QUALITY
    /\ loads[3].via = "fetch"
    /\ loads[3].quality >= EARLY_EXIT_QUALITY
    /\ res.pc = "built"

\* C12: every hidden tab for which fetchRenderedTextFromHiddenTab has
\* returned had chrome.tabs.remove issued, and once the resolution has
\* ended no hidden tab is open.
C12_HiddenTabsDisposed ==
    /\ \A i \in 1..Len(hidden) :
         (i < Len(hidden) \/ res.pc \notin {"wait", "script"}) => hidden[i].removal # "none"
    /\ res.pc \in {"built", "notFound", "threw"}
         => \A i \in 1..Len(hidden) : ~hidden[i].open


\* C13: every summary buildSummary returns, remote or local, has fields
\* over exactly the five keys and a confidence over exactly the same
\* keys, each low, medium or high.
C13_SummaryHasFiveKeys ==
    (calc.fn = "buildSummary" /\ calc.pc = "stored")
      => /\ DOMAIN calc.summary.fields = FIELDS
         /\ DOMAIN calc.summary.confidence = FIELDS
         /\ \A k \in FIELDS : calc.summary.confidence[k] \in Levels

\* C13 witness: a remote summary was accepted although the language
\* model answered with other keys and a level that is none of the three.
C13_Witness ==
    /\ calc.fn = "buildSummary"
    /\ calc.pc = "stored"
    /\ calc.summary.src = "remote"
    /\ DOMAIN calc.llm.fields # FIELDS
    /\ \E k \in DOMAIN calc.llm.confidence : calc.llm.confidence[k] \notin Levels

\* C14: in every summary buildSummary returns a null field is never at
\* confidence high, and in a local summary a null field is at low.
C14_NullFieldNeverHigh ==
    (calc.fn = "buildSummary" /\ calc.pc = "stored")
      => \A k \in FIELDS :
           calc.summary.fields[k] = "null"
             => /\ calc.summary.confidence[k] # "high"
                /\ calc.summary.src = "local" => calc.summary.confidence[k] = "low"

\* C15: the payload saveSnapshot posts carries page_url equal to the
\* summary's pageUrl whenever the summary has one, next to store_domain,
\* policy_url, policy_type, summary, raw_text_snippet, user_agent and
\* extension_version.
C15_PayloadCarriesPageUrl ==
    (calc.fn = "saveSnapshot" /\ calc.pc = "posted")
      => /\ {"store_domain", "policy_url", "policy_type", "summary", "raw_text_snippet",
             "user_agent", "extension_version"} \subseteq DOMAIN calc.payload
         /\ calc.summary.pageUrl # UndefinedUrl
              => /\ "page_url" \in DOMAIN calc.payload
                 /\ calc.payload["page_url"] = calc.summary.pageUrl

\* C16: a POST /api/v1/snapshots whose checksum equals that of a snapshot
\* the store already has is answered 409 DUPLICATE_SNAPSHOT with that
\* snapshot's id and stores nothing, and no two snapshots of one store
\* share a checksum.
C16_DuplicateAnswered409 ==
    /\ \A i, j \in 1..Len(db) :
         (db[i].store = db[j].store /\ db[i].checksum = db[j].checksum) => i = j
    /\ \A i \in 1..Len(db) :
         (/\ resp.last.kind = "create"
          /\ resp.last.status # 401
          /\ resp.last.store = db[i].store
          /\ resp.last.checksum = db[i].checksum
          /\ resp.last.id # i)
           => /\ resp.last.status = 409
              /\ resp.last.code = "DUPLICATE_SNAPSHOT"
              /\ resp.last.existing = i

\* C17: GET /api/v1/snapshots lists only the authenticated user's
\* snapshots, latest extracted_at first, at most per_page of them, with
\* page at least 1, per_page within 1..100 (10 by default) and total_pages
\* the ceiling of total_count / per_page; without a user's token the
\* answer is 401 and lists nothing.
C17_IndexScopedAndPaged ==
    resp.last.kind = "index"
      => LET r == resp.last
             p == r.pagination
         IN  IF r.status = 401
             THEN r.items = <<>> /\ r.user = "nil"
             ELSE /\ r.status = 200
                  /\ r.user \in Users
                  /\ \A k \in 1..Len(r.items) : db[r.items[k]].user = r.user
                  /\ \A k \in 1..(Len(r.items) - 1) :
                       db[r.items[k]].extracted_at >= db[r.items[k + 1]].extracted_at
                  /\ Len(r.items) <= p.per_page
                  /\ p.current_page >= 1
                  /\ p.per_page \in 1..100
                  /\ r.perPage = "absent" => p.per_page = 10
                  /\ p.total_pages * p.per_page >= p.total_count
                  /\ (p.total_pages - 1) * p.per_page < p.total_count \/ p.total_count = 0
                  /\ p.total_count = 0 => p.total_pages = 0

\* C17 witness: a user asking for 500 per page is listed its one snapshot,
\* 100 per page, while the other user has a snapshot too.
C17_Witness ==
    /\ resp.last.kind = "index"
    /\ resp.last.status = 200
    /\ resp.last.perPage = "500"
    /\ resp.last.pagination.per_page = 100
    /\ Len(resp.last.items) = 1
    /\ \E i \in 1..Len(db) : db[i].user # resp.last.user

\* C18: stripHtmlToText applied to its own output returns it unchanged,
\* for every input and also when the cap cut the text, and the second
\* normalization by extractPolicyFromText changes nothing.
C18_StripIsIdempotent ==
    (calc.fn = "stripHtmlToText" /\ calc.pc \in {"twice", "extracted"})
      => calc.again = calc.once

\* C19: refundPolicyCandidates never holds a URL twice; the canonical and
\* alternate route URLs come first, in their fixed order, before every
\* footer or help-center candidate; refundPolicy is the first element.
C19_CandidatesDistinctCanonicalFirst ==
    (calc.fn = "resolvePolicyUrls" /\ calc.pc = "resolved")
      => LET c == calc.urls.refundPolicyCandidates
         IN  /\ \A i, j \in 1..Len(c) : c[i] = c[j] => i = j
             /\ Len(c) >= Len(BuildCandidateUrls)
             /\ SubSeq(c, 1, Len(BuildCandidateUrls)) = BuildCandidateUrls
             /\ calc.urls.refundPolicy = c[1]

\* C19 witness: the footer links the canonical refund URL and a
\* help-center article, and candidates follow the four route URLs.
C19_Witness ==
    /\ calc.fn = "resolvePolicyUrls"
    /\ calc.pc = "resolved"
    /\ \E i \in 1..Len(calc.footer) : calc.footer[i].url = RefundUrl /\ calc.footer[i].score > 0
    /\ \E i \in 1..Len(calc.footer) : calc.footer[i].url = HcReturnsUrl /\ calc.footer[i].score > 0
    /\ Len(calc.urls.refundPolicyCandidates) > Len(BuildCandidateUrls)

\* The anchored matches of the text read, and whether the k-th is the one
\* the loop keeps: none scores higher and none before it scores as high.
Anchored == {k \in 1..Len(calc.matches) : calc.matches[k].anchored}

ScoreAt(k) ==
    3 + (IF calc.matches[k].within THEN 1 ELSE 0)
      + (IF calc.matches[k].refundWord THEN 1 ELSE 0)
      - (IF calc.matches[k].conditional THEN 1 ELSE 0)

Kept(k) ==
    /\ k \in Anchored
    /\ \A j \in Anchored : ScoreAt(j) <= ScoreAt(k) /\ (j < k => ScoreAt(j) < ScoreAt(k))

LevelOf(score) == IF score >= 5 THEN "high" ELSE IF score >= 3 THEN "medium" ELSE "low"

\* C20 as written: the hard-negative phrase is returned at high exactly
\* when one matches and no anchored duration is found; whenever an
\* anchored duration is found the best-scoring duration is returned, at
\* high for a score of 5, medium from 3, low below, also when a
\* hard-negative phrase matches.
C20_DurationWinsOverNegative ==
    (calc.fn = "extractReturnWindow" /\ calc.pc = "read")
      => /\ (calc.hardNegative # "null" /\ Anchored = {})
              <=> (calc.hardNegative # "null"
                     /\ calc.result = [value |-> calc.hardNegative, confidence |-> "high"])
         /\ \A k \in Anchored :
              Kept(k) => calc.result = [value |-> calc.matches[k].value,
                                        confidence |-> LevelOf(ScoreAt(k))]

\* C20 amended: the hard-negative phrase is returned at high exactly when
\* one matches and no anchored duration is found, and at medium when an
\* anchored duration is found too; without a hard-negative phrase the
\* best-scoring anchored duration is returned, at high for a score of 5,
\* medium from 3, low below.
C20_NegativeWinsAtMedium ==
    (calc.fn = "extractReturnWindow" /\ calc.pc = "read")
      => /\ (calc.hardNegative # "null" /\ Anchored = {})
              <=> (calc.hardNegative # "null"
                     /\ calc.result = [value |-> calc.hardNegative, confidence |-> "high"])
         /\ (calc.hardNegative # "null" /\ Anchored # {})
              => calc.result = [value |-> calc.hardNegative, confidence |-> "medium"]
         /\ calc.hardNegative = "null"
              => \A k \in Anchored :
                   Kept(k) => calc.result = [value |-> calc.matches[k].value,
                                             confidence |-> LevelOf(ScoreAt(k))]

\* C20 witness: a text with a hard-negative phrase and an anchored
\* duration has been read.
C20_Witness ==
    /\ calc.fn = "extractReturnWindow"
    /\ calc.pc = "read"
    /\ calc.hardNegative # "null"
    /\ \E k \in 1..Len(calc.matches) : calc.matches[k].anchored
    /\ calc.result.confidence = "medium"

\* The sentences of the text just read that hold a keyword.
Qualifying == {k \in 1..Len(calc.sentences) : calc.sentences[k].hits > 0}

\* C21: extractConditionRequirements reports medium for a text whose
\* qualifying sentences hold one keyword, no anchor phrase and no negation
\* word, high when a qualifying sentence holds two keywords or an anchor
\* phrase, and a non-null value at low only when a negation word co-occurs.
C21_ConditionMediumByDefault ==
    (calc.fn = "extractConditionRequirements" /\ calc.pc = "read") =>
        /\ (\E k \in Qualifying : calc.sentences[k].hits >= 2 \/ calc.sentences[k].anchor)
             => calc.result.confidence = "high"
        /\ (/\ Qualifying # {}
            /\ \A k \in Qualifying :
                 /\ calc.sentences[k].hits = 1
                 /\ ~calc.sentences[k].anchor
                 /\ ~calc.sentences[k].negated)
             => calc.result.confidence = "medium"
        /\ (calc.result.value # "null" /\ calc.result.confidence = "low")
             => \E k \in Qualifying : calc.sentences[k].negated

\* C22: in extractFees a text matching only fee-bearing patterns is never
\* reported below the medium of a text matching only no-fee patterns, and
\* a text matching both is reported as the mixed clause at medium.
C22_FeeNeverBelowNoFee ==
    (calc.fn = "extractFees" /\ calc.pc = "read") =>
        /\ (calc.feeMatches = <<>> /\ calc.noFeeMatches # <<>>)
             => calc.result = ExtractResult("no-fee clause", "medium")
        /\ (calc.feeMatches # <<>> /\ calc.noFeeMatches = <<>>)
             => calc.result.value = "fee clause" /\ calc.result.confidence \in {"medium", "high"}
        /\ (calc.feeMatches # <<>> /\ calc.noFeeMatches # <<>>)
             => calc.result = ExtractResult("mixed clause", "medium")

\* The page loads of fetchBestPolicyCandidate's walk: the direct fetches
\* of the candidates come first among the loads of a resolution.
WalkLoads ==
    {k \in 1..Len(loads) : loads[k].via = "fetch" /\ k <= Len(Candidates(res.urls))}

FetchedOk == {k \in WalkLoads : loads[k].ok}

\* C23: when no candidate scored >= 8, fetchBestPolicyCandidate returns
\* the fetched candidate of the highest quality, the earliest of equal
\* ones, and null exactly when the list is empty or every fetch failed;
\* the text of what it returned builds the summary only at quality >= 6.
C23_BestCandidateReturned ==
    (/\ res.fetched # NotFetched
     /\ \A k \in FetchedOk : loads[k].quality < EARLY_EXIT_QUALITY)
      => /\ res.fetched = NoBest <=> FetchedOk = {}
         /\ FetchedOk # {}
              => \E k \in FetchedOk :
                   /\ res.fetched = Candidate(loads[k].url, "fetch", loads[k].quality)
                   /\ \A j \in FetchedOk :
                        /\ loads[j].quality <= loads[k].quality
                        /\ j < k => loads[j].quality < loads[k].quality
         /\ (res.used # NoBest /\ res.used = res.fetched)
              => res.fetched.quality >= MIN_REFUND_POLICY_QUALITY
         /\ (res.fetched # NoBest /\ res.fetched.quality >= MIN_REFUND_POLICY_QUALITY)
              => res.pc = "built" /\ res.used = res.fetched

\* C23 witness: three candidates were fetched, the first two scored 6 and
\* the third failed; the first one was returned and built the summary.
C23_Witness ==
    /\ Len(loads) = 3
    /\ loads[1].ok /\ loads[1].quality = 6
    /\ loads[2].ok /\ loads[2].quality = 6
    /\ ~loads[3].ok
    /\ res.fetched = Candidate(loads[1].url, "fetch", 6)
    /\ res.pc = "built"

Place(url) ==
    LET candidates == Candidates(res.urls)
    IN  IF \E i \in 1..Len(candidates) : candidates[i] = url
        THEN CHOOSE i \in 1..Len(candidates) : candidates[i] = url
        ELSE 0

RenderLoads == {k \in 1..Len(loads) : loads[k].via = "render"}

\* C25: hidden tabs are created, and texts rendered, only after the
\* direct walk fetched every candidate and none reached quality 6, and
\* only with a help-center URL among the candidates; the renders follow
\* the first three candidates in list order, a tab is created only after
\* the one before had its removal issued, a rendered text of quality
\* >= 8 is the last load, and a rendered text builds the summary only at
\* quality >= 6.
C25_RenderFallbackRules ==
    LET candidates == Candidates(res.urls)
    IN  /\ (hidden # <<>> \/ RenderLoads # {})
             => /\ res.fetched # NotFetched
                /\ ~Usable(res.fetched)
                /\ \A k \in 1..Len(candidates) :
                     /\ loads[k].via = "fetch"
                     /\ loads[k].url = candidates[k]
                     /\ loads[k].ok => loads[k].quality < MIN_REFUND_POLICY_QUALITY
                /\ \E i \in 1..Len(candidates) : IncludesHelpCenter(candidates[i])
        /\ \A k \in RenderLoads :
             /\ Place(loads[k].url) \in 1..RENDER_FALLBACK_CANDIDATE_LIMIT
             /\ \A j \in RenderLoads : j < k => Place(loads[j].url) < Place(loads[k].url)
             /\ (loads[k].ok /\ loads[k].quality >= EARLY_EXIT_QUALITY)
                  => /\ k = Len(loads)
                     /\ res.pc = "built"
                     /\ res.used = Candidate(loads[k].url, "render", loads[k].quality)
        /\ \A i \in 1..Len(hidden) :
             /\ Place(hidden[i].url) \in 1..RENDER_FALLBACK_CANDIDATE_LIMIT
             /\ \A j \in 1..(i - 1) :
                  /\ Place(hidden[j].url) < Place(hidden[i].url)
                  /\ hidden[j].removal # "none"
        /\ res.used.text.via = "render"
             => res.used.quality >= MIN_REFUND_POLICY_QUALITY

\* C25 witness: of four candidates the help-center link is the fourth;
\* the first three were rendered, none reached quality 6, and the
\* resolution ended without rendering the fourth.
C25_Witness ==
    /\ Len(Candidates(res.urls)) = 4
    /\ Cardinality(RenderLoads) = RENDER_FALLBACK_CANDIDATE_LIMIT
    /\ \A k \in RenderLoads : loads[k].ok /\ loads[k].quality < MIN_REFUND_POLICY_QUALITY
    /\ res.pc = "notFound"

RunEnded == calc.pc \in {"returned", "caught"}

RunDetectionSettled ==
    \A q \in Requests :
      /\ calc.req[q].pc # "received"
      /\ calc.req[q].timer # "live"
      /\ calc.req[q].inject # "issued"

\* C27: no RUN_DETECTION request is answered twice and, once nothing is
\* left to answer it, each has been answered once, also when two
\* requests for the tab overlap; the timeout or injection failure of a
\* request never resolves the entry of another; an answered request has
\* no entry and no live timer.
C27_OneResponsePerRequest ==
    calc.fn = "runDetection" =>
        /\ \A q \in Requests : calc.req[q].responses <= 1
        /\ RunDetectionSettled => \A q \in Requests : calc.req[q].responses = 1
        /\ ~calc.crossed
        /\ \A q \in Requests :
             calc.req[q].responses = 1 => (calc.pending # q /\ calc.req[q].timer # "live")

\* C28: after the tab was removed or started loading, its entry is absent
\* until a notification of the new page arrives; a handler of the page
\* before the reset writes no state after it; every state held has
\* detection, summary, status and fromCache defined.
C28_ResetStateStaysAbsent ==
    calc.fn = "tabReset" =>
        /\ (calc.reset # "none" /\ ~calc.notified) => calc.entry = AbsentState
        /\ ~calc.stale
        /\ calc.entry # AbsentState
             => \A field \in {"detection", "summary", "status", "fromCache"} :
                  calc.entry[field] # "undefined"

\* C29: the policy_type of every payload saveSnapshot posts is one of the
\* types the backend accepts.
C29_PolicyTypeAccepted ==
    (calc.fn = "saveSnapshot" /\ calc.pc = "posted")
      => calc.payload.policy_type \in PolicyTypes

\* C30: under fairness a tab whose state is detecting for a detected
\* storefront eventually reaches done or error.
C30_DetectingLeadsToDoneOrError ==
    (tab.status = "detecting" /\ tab.detection.isShopify)
      ~> (tab.status \in {"done", "error"})

====
